---- MODULE Spec2Model ----
(***************************************************************************)
(* CRM-Service: the /admin request pipeline.                               *)
(*   JWTAuth -> RequirePermission / RequireRole -> handler -> gorm store   *)
(* Tables are sequences indexed by the SERIAL primary key; a row with      *)
(* deleted = TRUE is a soft-deleted row (gorm.DeletedAt), which every      *)
(* query made through h.db leaves out.                                     *)
(***************************************************************************)
EXTENDS Integers, Sequences, FiniteSets, TLC

VARIABLES customers, contacts, deals, activities, tags, customer_tags,
          audit_logs, now, resp, last, lastOK, procs

stores == <<customers, contacts, deals, activities, tags, customer_tags>>
vars == <<customers, contacts, deals, activities, tags, customer_tags,
          audit_logs, now, resp, last, lastOK, procs>>

(***************************************************************************)
(* Bounds of the model.                                                    *)
(***************************************************************************)
MaxCustomers == 2
MaxContacts == 3
MaxDeals == 2
MaxActivities == 2
MaxTags == 2
MaxAudit == 3
MaxGatewayAudit == 1
MaxInFlight == 2
MaxTime == 1
MaxAbsentAudit == 2

\* a nil pointer is <<>>, a pointer to v is <<v>>
NULL == <<>>
Ptr(v) == <<v>>
Deref(p) == p[1]

(***************************************************************************)
(* models.User roles and permissions (models/user.go).                     *)
(***************************************************************************)
RoleAdmin == "admin"
RoleManager == "manager"
RoleAgent == "agent"

PermissionRead == "read"
PermissionWrite == "write"
PermissionDelete == "delete"
PermissionManageAll == "manage_all"
PermissionManageOwn == "manage_own"

RolePermissions ==
  [r \in {RoleAdmin, RoleManager, RoleAgent} |->
     CASE r = RoleAdmin   -> <<PermissionRead, PermissionWrite, PermissionDelete, PermissionManageAll>>
       [] r = RoleManager -> <<PermissionRead, PermissionWrite, PermissionDelete, PermissionManageAll>>
       [] r = RoleAgent   -> <<PermissionRead, PermissionWrite, PermissionManageOwn>>]

HasPermissionAgentDeletes(role, permission) ==
  \/ role = RoleAgent /\ permission = PermissionDelete
  \/ /\ role \in DOMAIN RolePermissions
     /\ \E i \in 1..Len(RolePermissions[role]) : RolePermissions[role][i] = permission

HasPermission(role, permission) ==
  IF role \notin DOMAIN RolePermissions THEN FALSE
  ELSE \E i \in 1..Len(RolePermissions[role]) : RolePermissions[role][i] = permission

(***************************************************************************)
(* Bearer credentials.  A header is the sequence of its space-separated    *)
(* words (<<>> is the absent header); a token is the record of what        *)
(* jwt.ParseWithClaims finds in it.                                        *)
(***************************************************************************)
Token(uid, sub, name, role) ==
  [wellformed |-> TRUE, alg |-> "HS256", signed |-> TRUE, expired |-> FALSE,
   user_id |-> uid, sub |-> sub, name |-> name, role |-> role]

AdminToken == Token(1, "", "ann", RoleAdmin)
ManagerToken == Token(2, "", "bob", RoleManager)
AgentToken == Token(3, "", "cy", RoleAgent)
GuestToken == Token(4, "", "dan", "guest")
NoRoleToken == Token(5, "", "eve", "")
\* tokens that carry a subject: user_id 0 is the claim left out (omitempty)
SubjectTokenA == Token(0, "u-17", "fay", RoleAgent)
SubjectTokenB == Token(0, "u-18", "gus", RoleAgent)
BothIdsToken == Token(6, "u-19", "hal", RoleManager)
ExpiredToken == [AdminToken EXCEPT !.expired = TRUE]
ForgedToken == [AdminToken EXCEPT !.signed = FALSE]
RsaToken == [AdminToken EXCEPT !.alg = "RS256"]
GarbageToken == [AdminToken EXCEPT !.wellformed = FALSE]

Bearer(t) == <<"Bearer", t>>

StaffHeaders == {Bearer(AdminToken), Bearer(AgentToken)}

BadHeaders ==
  { <<>>, <<"Bearer">>, <<"Basic", AdminToken>>,
    Bearer(ExpiredToken), Bearer(ForgedToken), Bearer(RsaToken),
    Bearer(GarbageToken), Bearer(NoRoleToken) }

AllHeaders ==
  BadHeaders \cup
  { Bearer(AdminToken), Bearer(ManagerToken), Bearer(AgentToken),
    Bearer(GuestToken), <<"bearer", AdminToken>> }

\* strings.EqualFold(parts[0], "Bearer") over the schemes of the model
EqualFoldBearer(s) == s \in {"Bearer", "bearer", "BEARER"}

\* strings.SplitN(authHeader, " ", 2): one part when the header has no space
SplitN2(h) == IF Len(h) = 1 THEN <<h[1]>> ELSE <<h[1], SubSeq(h, 2, Len(h))>>

\* jwt.ParseWithClaims with the HMAC key function: "" is success
ParseWithClaims(rest) ==
  IF Len(rest) # 1 THEN "malformed"
  ELSE LET t == rest[1] IN
       IF ~t.wellformed THEN "malformed"
       ELSE IF t.alg # "HS256" THEN "unverifiable"
       ELSE IF ~t.signed THEN "signature_invalid"
       ELSE IF t.expired THEN "expired"
       ELSE ""

Aborted(status, code) == [aborted |-> TRUE, status |-> status, code |-> code, ctx |-> <<>>]

JWTAuthNoRoleCheck(h) ==
  IF h = <<>> THEN Aborted(401, "MISSING_TOKEN")
  ELSE LET parts == SplitN2(h) IN
    IF Len(parts) # 2 \/ ~EqualFoldBearer(parts[1]) THEN Aborted(401, "INVALID_TOKEN_FORMAT")
    ELSE IF ParseWithClaims(parts[2]) # "" THEN Aborted(401, "INVALID_TOKEN")
    ELSE LET claims == parts[2][1] IN
      [aborted |-> FALSE, status |-> 200, code |-> "",
       ctx |-> [user |-> [ID |-> claims.user_id, Name |-> claims.name, Role |-> claims.role],
                user_id |-> claims.user_id,
                user_role |-> claims.role]]

JWTAuth(h) ==
  IF h = <<>> THEN Aborted(401, "MISSING_TOKEN")
  ELSE LET parts == SplitN2(h) IN
    IF Len(parts) # 2 \/ ~EqualFoldBearer(parts[1]) THEN Aborted(401, "INVALID_TOKEN_FORMAT")
    ELSE IF ParseWithClaims(parts[2]) # "" THEN Aborted(401, "INVALID_TOKEN")
    ELSE LET claims == parts[2][1]
             userID == claims.user_id
         IN IF claims.role = "" THEN Aborted(401, "MISSING_ROLE")
            ELSE [aborted |-> FALSE, status |-> 200, code |-> "",
                  ctx |-> [user |-> [ID |-> userID, Name |-> claims.name, Role |-> claims.role],
                           user_id |-> userID,
                           user_role |-> claims.role]]

\* a route's gate: <<"none">>, <<"permission", p>> or <<"role", r>>
NoGate == <<"none", "">>
NeedPermission(p) == <<"permission", p>>
NeedRole(r) == <<"role", r>>

RequireRole(allowedRole, ctx) ==
  IF "user_role" \notin DOMAIN ctx THEN Aborted(401, "NO_USER_CONTEXT")
  ELSE IF ctx.user_role = allowedRole THEN [aborted |-> FALSE, status |-> 200, code |-> "", ctx |-> ctx]
  ELSE Aborted(403, "INSUFFICIENT_PERMISSIONS")

RequirePermission(permission, ctx) ==
  IF "user_role" \notin DOMAIN ctx THEN Aborted(401, "NO_USER_CONTEXT")
  ELSE IF ~HasPermission(ctx.user_role, permission) THEN Aborted(403, "INSUFFICIENT_PERMISSIONS")
  ELSE [aborted |-> FALSE, status |-> 200, code |-> "", ctx |-> ctx]

Guard(gate, ctx) ==
  CASE gate[1] = "permission" -> RequirePermission(gate[2], ctx)
    [] gate[1] = "role" -> RequireRole(gate[2], ctx)
    [] OTHER -> [aborted |-> FALSE, status |-> 200, code |-> "", ctx |-> ctx]

(***************************************************************************)
(* Responses.  resp is the response of the request served last, last is    *)
(* that request and lastOK the last request answered with a 2xx status.    *)
(***************************************************************************)
Reply(status, code) == resp' = [status |-> status, code |-> code]

\* c.JSON(status, body) of a read endpoint: data is what the body carries
ReplyData(status, data) == resp' = [status |-> status, code |-> "", data |-> data]

\* c.AbortWithStatusJSON in a middleware: the chain stops, no handler runs
AbortWithStatusJSON(status, code) ==
  /\ Reply(status, code)
  /\ UNCHANGED <<stores, audit_logs>>

\* a handler's early return: c.JSON(status, error body) and nothing written
Fail(status, code) ==
  /\ Reply(status, code)
  /\ UNCHANGED <<stores, audit_logs>>

\* storage faults a request can meet: none, the handler's checked write, the audit insert
Faults == {"none", "persist", "audit"}

\* logAudit: the audit row of the caller; the error of h.db.Create(&audit) is dropped
AuditRow(ctx, resourceType, resourceID, action) ==
  [resource_type |-> resourceType, resource_id |-> resourceID, action |-> action,
   user_id |-> ctx.user.ID, user_name |-> ctx.user.Name, user_role |-> ctx.user.Role]

logAudit(ctx, resourceType, resourceID, action, fault) ==
  audit_logs' = IF fault = "audit" THEN audit_logs
                ELSE Append(audit_logs, AuditRow(ctx, resourceType, resourceID, action))

\* h.db.First(&row, id): the row with that key that is not soft-deleted
Found(table, id) == id \in 1..Len(table) /\ ~table[id].deleted

Live(table) == {i \in 1..Len(table) : ~table[i].deleted}


(***************************************************************************)
(* Customers (handlers/customers.go).  An email is <<local, domain, tld>>; *)
(* <<>> is the empty string.  Of the string columns only name is kept      *)
(* (phone, company, role and notes are copied exactly like name).          *)
(***************************************************************************)
NoEmail == <<>>
EmailA == <<"ann", "x", "com">>
EmailB == <<"bob", "x", "com">>
EmailShortTld == <<"ann", "x", "c">>

\* binding:"email" of the validator: local part, dotted domain
BindingEmail(email) == Len(email) = 3 /\ email[1] # "" /\ email[2] # "" /\ email[3] # ""

\* ^[a-zA-Z0-9._%+-]+@[a-zA-Z0-9.-]+\.[a-zA-Z]{2,}$
isValidEmail(email) == Len(email) = 3 /\ email[1] # "" /\ email[2] # "" /\ Len(email[3]) >= 2

CustomerStatusLead == "lead"
CustomerStatusActive == "active"

\* the unique index on customers.email covers every row, soft-deleted rows too
EmailUniqueViolation(table, email, selfId) ==
  \E i \in 1..Len(table) : i # selfId /\ table[i].email = email

\* h.db.Where("email = ?", e).First(&existing) / ... AND id != ?: err == nil
EmailTaken(table, email, selfId) ==
  \E i \in Live(table) : i # selfId /\ table[i].email = email

\* POST /admin/customers
CreateCustomer(ctx, req, fault) ==
  IF req.name = "" \/ ~BindingEmail(req.email) THEN Fail(400, "INVALID_REQUEST")
  ELSE IF ~isValidEmail(req.email) THEN Fail(400, "INVALID_EMAIL")
  ELSE IF EmailTaken(customers, req.email, 0) THEN Fail(409, "EMAIL_EXISTS")
  ELSE LET status == IF req.status = "" THEN CustomerStatusLead ELSE req.status
           customer == [name |-> req.name, email |-> req.email, status |-> status,
                        assigned_to |-> req.assigned_to, contacted |-> FALSE,
                        next_follow_up_at |-> req.next_follow_up_at, deleted |-> FALSE]
       IN IF fault = "persist" \/ EmailUniqueViolation(customers, req.email, 0)
          THEN Fail(500, "DATABASE_ERROR")
          ELSE /\ Len(customers) < MaxCustomers
               /\ customers' = Append(customers, customer)
               /\ logAudit(ctx, "customer", Len(customers) + 1, "create", fault)
               /\ Reply(201, "")
               /\ UNCHANGED <<contacts, deals, activities, tags, customer_tags>>

\* PUT /admin/customers/:id
UpdateCustomer(ctx, id, req, fault) ==
  IF id < 0 THEN Fail(400, "INVALID_ID")
  ELSE IF ~Found(customers, id) THEN Fail(404, "CUSTOMER_NOT_FOUND")
  ELSE IF req.email # NoEmail /\ ~BindingEmail(req.email) THEN Fail(400, "INVALID_REQUEST")
  ELSE LET customer == customers[id]
           changing == req.email # NoEmail /\ req.email # customer.email
       IN IF changing /\ ~isValidEmail(req.email) THEN Fail(400, "INVALID_EMAIL")
          ELSE IF changing /\ EmailTaken(customers, req.email, id) THEN Fail(409, "EMAIL_EXISTS")
          ELSE LET c1 == IF changing THEN [customer EXCEPT !.email = req.email] ELSE customer
                   c2 == IF req.name # "" THEN [c1 EXCEPT !.name = req.name] ELSE c1
                   c3 == IF req.status # "" THEN [c2 EXCEPT !.status = req.status] ELSE c2
                   c4 == IF req.assigned_to # NULL THEN [c3 EXCEPT !.assigned_to = req.assigned_to] ELSE c3
                   c5 == IF req.contacted # NULL THEN [c4 EXCEPT !.contacted = Deref(req.contacted)] ELSE c4
                   c6 == IF req.next_follow_up_at # NULL
                         THEN [c5 EXCEPT !.next_follow_up_at = req.next_follow_up_at] ELSE c5
               IN IF fault = "persist" \/ EmailUniqueViolation(customers, c6.email, id)
                  THEN Fail(500, "DATABASE_ERROR")
                  ELSE /\ customers' = [customers EXCEPT ![id] = c6]
                       /\ logAudit(ctx, "customer", id, "update", fault)
                       /\ Reply(200, "")
                       /\ UNCHANGED <<contacts, deals, activities, tags, customer_tags>>

PatchCustomerWritesName(ctx, id, req, fault) ==
  IF id < 0 THEN Fail(400, "INVALID_ID")
  ELSE IF ~Found(customers, id) THEN Fail(404, "CUSTOMER_NOT_FOUND")
  ELSE LET updates == {f \in {"status", "assigned_to", "contacted", "next_follow_up_at"} : req[f] # NULL}
           customer == customers[id]
           c0 == IF req.name # "" THEN [customer EXCEPT !.name = req.name] ELSE customer
           c1 == IF "status" \in updates THEN [c0 EXCEPT !.status = Deref(req.status)] ELSE c0
           c2 == IF "assigned_to" \in updates THEN [c1 EXCEPT !.assigned_to = req.assigned_to] ELSE c1
           c3 == IF "contacted" \in updates THEN [c2 EXCEPT !.contacted = Deref(req.contacted)] ELSE c2
           c4 == IF "next_follow_up_at" \in updates
                 THEN [c3 EXCEPT !.next_follow_up_at = req.next_follow_up_at] ELSE c3
       IN IF updates = {} THEN Fail(400, "NO_UPDATES")
          ELSE IF fault = "persist" THEN Fail(500, "DATABASE_ERROR")
          ELSE /\ customers' = [customers EXCEPT ![id] = c4]
               /\ logAudit(ctx, "customer", id, "update", fault)
               /\ Reply(200, "")
               /\ UNCHANGED <<contacts, deals, activities, tags, customer_tags>>

PatchCustomerTogglesContacted(ctx, id, req, fault) ==
  IF id < 0 THEN Fail(400, "INVALID_ID")
  ELSE IF ~Found(customers, id) THEN Fail(404, "CUSTOMER_NOT_FOUND")
  ELSE LET updates == {f \in {"status", "assigned_to", "contacted", "next_follow_up_at"} : req[f] # NULL}
           customer == customers[id]
           c1 == IF "status" \in updates THEN [customer EXCEPT !.status = Deref(req.status)] ELSE customer
           c2 == IF "assigned_to" \in updates THEN [c1 EXCEPT !.assigned_to = req.assigned_to] ELSE c1
           c3 == IF "contacted" \in updates THEN [c2 EXCEPT !.contacted = ~c2.contacted] ELSE c2
           c4 == IF "next_follow_up_at" \in updates
                 THEN [c3 EXCEPT !.next_follow_up_at = req.next_follow_up_at] ELSE c3
       IN IF updates = {} THEN Fail(400, "NO_UPDATES")
          ELSE IF fault = "persist" THEN Fail(500, "DATABASE_ERROR")
          ELSE /\ customers' = [customers EXCEPT ![id] = c4]
               /\ logAudit(ctx, "customer", id, "update", fault)
               /\ Reply(200, "")
               /\ UNCHANGED <<contacts, deals, activities, tags, customer_tags>>

\* PATCH /admin/customers/:id
PatchCustomer(ctx, id, req, fault) ==
  IF id < 0 THEN Fail(400, "INVALID_ID")
  ELSE IF ~Found(customers, id) THEN Fail(404, "CUSTOMER_NOT_FOUND")
  ELSE LET updates == {f \in {"status", "assigned_to", "contacted", "next_follow_up_at"} : req[f] # NULL}
           customer == customers[id]
           c1 == IF "status" \in updates THEN [customer EXCEPT !.status = Deref(req.status)] ELSE customer
           c2 == IF "assigned_to" \in updates THEN [c1 EXCEPT !.assigned_to = req.assigned_to] ELSE c1
           c3 == IF "contacted" \in updates THEN [c2 EXCEPT !.contacted = Deref(req.contacted)] ELSE c2
           c4 == IF "next_follow_up_at" \in updates
                 THEN [c3 EXCEPT !.next_follow_up_at = req.next_follow_up_at] ELSE c3
       IN IF updates = {} THEN Fail(400, "NO_UPDATES")
          ELSE IF fault = "persist" THEN Fail(500, "DATABASE_ERROR")
          ELSE /\ customers' = [customers EXCEPT ![id] = c4]
               /\ logAudit(ctx, "customer", id, "update", fault)
               /\ Reply(200, "")
               /\ UNCHANGED <<contacts, deals, activities, tags, customer_tags>>

DeleteCustomerAuditChecked(ctx, id, fault) ==
  IF id < 0 THEN Fail(400, "INVALID_ID")
  ELSE IF ~Found(customers, id) THEN Fail(404, "CUSTOMER_NOT_FOUND")
  ELSE IF fault = "persist" \/ fault = "audit" THEN Fail(500, "DATABASE_ERROR")
  ELSE /\ customers' = [customers EXCEPT ![id].deleted = TRUE]
       /\ logAudit(ctx, "customer", id, "delete", fault)
       /\ Reply(200, "")
       /\ UNCHANGED <<contacts, deals, activities, tags, customer_tags>>

\* DELETE /admin/customers/:id
DeleteCustomer(ctx, id, fault) ==
  IF id < 0 THEN Fail(400, "INVALID_ID")
  ELSE IF ~Found(customers, id) THEN Fail(404, "CUSTOMER_NOT_FOUND")
  ELSE IF fault = "persist" THEN Fail(500, "DATABASE_ERROR")
  ELSE /\ customers' = [customers EXCEPT ![id].deleted = TRUE]
       /\ logAudit(ctx, "customer", id, "delete", fault)
       /\ Reply(200, "")
       /\ UNCHANGED <<contacts, deals, activities, tags, customer_tags>>


(***************************************************************************)
(* Contacts (handlers/contacts.go).                                        *)
(***************************************************************************)
\* h.db.Model(&models.Contact{}).Where("customer_id = ? [AND id != ?]").Update("is_primary", false)
\* (exceptId = 0 is the form without the id clause)
ClearPrimary(table, customerID, exceptId) ==
  [i \in 1..Len(table) |->
     IF ~table[i].deleted /\ table[i].customer_id = customerID /\ i # exceptId
     THEN [table[i] EXCEPT !.is_primary = FALSE]
     ELSE table[i]]

\* POST /admin/customers/:id/contacts
CreateContact(ctx, customerID, req, fault) ==
  IF customerID < 0 THEN Fail(400, "INVALID_ID")
  ELSE IF ~Found(customers, customerID) THEN Fail(404, "CUSTOMER_NOT_FOUND")
  ELSE IF req.first_name = "" THEN Fail(400, "INVALID_REQUEST")
  ELSE LET cleared == IF req.is_primary THEN ClearPrimary(contacts, customerID, 0) ELSE contacts
           contact == [customer_id |-> customerID, first_name |-> req.first_name,
                       is_primary |-> req.is_primary, deleted |-> FALSE]
       IN IF fault = "persist"
          THEN /\ contacts' = cleared
               /\ Reply(500, "DATABASE_ERROR")
               /\ UNCHANGED <<customers, deals, activities, tags, customer_tags, audit_logs>>
          ELSE /\ Len(contacts) < MaxContacts
               /\ contacts' = Append(cleared, contact)
               /\ logAudit(ctx, "contact", Len(contacts) + 1, "create", fault)
               /\ Reply(201, "")
               /\ UNCHANGED <<customers, deals, activities, tags, customer_tags>>

\* PUT /admin/contacts/:id
UpdateContact(ctx, id, req, fault) ==
  IF id < 0 THEN Fail(400, "INVALID_ID")
  ELSE IF ~Found(contacts, id) THEN Fail(404, "CONTACT_NOT_FOUND")
  ELSE LET contact == contacts[id]
           c1 == IF req.first_name # "" THEN [contact EXCEPT !.first_name = req.first_name] ELSE contact
           cleared == IF req.is_primary # NULL /\ Deref(req.is_primary)
                      THEN ClearPrimary(contacts, contact.customer_id, id) ELSE contacts
           c2 == IF req.is_primary # NULL THEN [c1 EXCEPT !.is_primary = Deref(req.is_primary)] ELSE c1
       IN IF fault = "persist"
          THEN /\ contacts' = cleared
               /\ Reply(500, "DATABASE_ERROR")
               /\ UNCHANGED <<customers, deals, activities, tags, customer_tags, audit_logs>>
          ELSE /\ contacts' = [cleared EXCEPT ![id] = c2]
               /\ logAudit(ctx, "contact", id, "update", fault)
               /\ Reply(200, "")
               /\ UNCHANGED <<customers, deals, activities, tags, customer_tags>>

\* DELETE /admin/contacts/:id
DeleteContact(ctx, id, fault) ==
  IF id < 0 THEN Fail(400, "INVALID_ID")
  ELSE IF ~Found(contacts, id) THEN Fail(404, "CONTACT_NOT_FOUND")
  ELSE IF fault = "persist" THEN Fail(500, "DATABASE_ERROR")
  ELSE /\ contacts' = [contacts EXCEPT ![id].deleted = TRUE]
       /\ logAudit(ctx, "contact", id, "delete", fault)
       /\ Reply(200, "")
       /\ UNCHANGED <<customers, deals, activities, tags, customer_tags>>

(***************************************************************************)
(* Deals (models/deal.go, handlers/deals.go).                              *)
(***************************************************************************)
DealStageProspecting == "prospecting"
DealStageQualification == "qualification"
DealStageProposal == "proposal"
DealStageNegotiation == "negotiation"
DealStageClosedWon == "closed_won"
DealStageClosedLost == "closed_lost"

ValidDealStages ==
  <<DealStageProspecting, DealStageQualification, DealStageProposal,
    DealStageNegotiation, DealStageClosedWon, DealStageClosedLost>>

IsValidDealStage(stage) == \E i \in 1..Len(ValidDealStages) : ValidDealStages[i] = stage

\* if probability < 0 { probability = 0 }; if probability > 100 { probability = 100 }
ClampProbabilityNoCeiling(probability) ==
  IF probability < 0 THEN 0 ELSE probability

ClampProbability(probability) ==
  LET p1 == IF probability < 0 THEN 0 ELSE probability
  IN IF p1 > 100 THEN 100 ELSE p1

\* POST /admin/deals
CreateDeal(ctx, req, fault) ==
  IF req.title = "" \/ req.customer_id = 0 THEN Fail(400, "INVALID_REQUEST")
  ELSE IF ~Found(customers, req.customer_id) THEN Fail(400, "CUSTOMER_NOT_FOUND")
  ELSE LET stage == IF req.stage = "" THEN DealStageProspecting ELSE req.stage
           probability == ClampProbability(req.probability)
           deal == [customer_id |-> req.customer_id, stage |-> stage,
                    probability |-> probability, actual_close_date |-> NULL,
                    lost_reason |-> "", deleted |-> FALSE]
       IN IF fault = "persist" THEN Fail(500, "DATABASE_ERROR")
          ELSE /\ Len(deals) < MaxDeals
               /\ deals' = Append(deals, deal)
               /\ logAudit(ctx, "deal", Len(deals) + 1, "create", fault)
               /\ Reply(201, "")
               /\ UNCHANGED <<customers, contacts, activities, tags, customer_tags>>

UpdateDealValidatesFirst(ctx, id, req, fault) ==
  IF id < 0 THEN Fail(400, "INVALID_ID")
  ELSE IF req.stage # "" /\ ~IsValidDealStage(req.stage) THEN Fail(400, "INVALID_STAGE")
  ELSE IF ~Found(deals, id) THEN Fail(404, "DEAL_NOT_FOUND")
  ELSE LET deal == deals[id]
           d1 == IF req.customer_id # NULL THEN [deal EXCEPT !.customer_id = Deref(req.customer_id)] ELSE deal
           d2 == IF req.stage # "" THEN [d1 EXCEPT !.stage = req.stage] ELSE d1
           d3 == IF req.probability # NULL
                 THEN [d2 EXCEPT !.probability = ClampProbability(Deref(req.probability))] ELSE d2
           d4 == IF req.actual_close_date # NULL
                 THEN [d3 EXCEPT !.actual_close_date = req.actual_close_date] ELSE d3
           d5 == IF req.lost_reason # "" THEN [d4 EXCEPT !.lost_reason = req.lost_reason] ELSE d4
       IN IF fault = "persist" \/ d5.customer_id \notin 1..Len(customers)
          THEN Fail(500, "DATABASE_ERROR")
          ELSE /\ deals' = [deals EXCEPT ![id] = d5]
               /\ logAudit(ctx, "deal", id, "update", fault)
               /\ Reply(200, "")
               /\ UNCHANGED <<customers, contacts, activities, tags, customer_tags>>

\* PUT /admin/deals/:id
UpdateDeal(ctx, id, req, fault) ==
  IF id < 0 THEN Fail(400, "INVALID_ID")
  ELSE IF ~Found(deals, id) THEN Fail(404, "DEAL_NOT_FOUND")
  ELSE IF req.stage # "" /\ ~IsValidDealStage(req.stage) THEN Fail(400, "INVALID_STAGE")
  ELSE LET deal == deals[id]
           d1 == IF req.customer_id # NULL THEN [deal EXCEPT !.customer_id = Deref(req.customer_id)] ELSE deal
           d2 == IF req.stage # "" THEN [d1 EXCEPT !.stage = req.stage] ELSE d1
           d3 == IF req.probability # NULL
                 THEN [d2 EXCEPT !.probability = ClampProbability(Deref(req.probability))] ELSE d2
           d4 == IF req.actual_close_date # NULL
                 THEN [d3 EXCEPT !.actual_close_date = req.actual_close_date] ELSE d3
           d5 == IF req.lost_reason # "" THEN [d4 EXCEPT !.lost_reason = req.lost_reason] ELSE d4
       IN \* deals.customer_id REFERENCES customers(id)
          IF fault = "persist" \/ d5.customer_id \notin 1..Len(customers)
          THEN Fail(500, "DATABASE_ERROR")
          ELSE /\ deals' = [deals EXCEPT ![id] = d5]
               /\ logAudit(ctx, "deal", id, "update", fault)
               /\ Reply(200, "")
               /\ UNCHANGED <<customers, contacts, activities, tags, customer_tags>>

PatchDealClearsLostReason(ctx, id, req, fault) ==
  IF id < 0 THEN Fail(400, "INVALID_ID")
  ELSE IF ~Found(deals, id) THEN Fail(404, "DEAL_NOT_FOUND")
  ELSE IF req.stage = "" THEN Fail(400, "INVALID_REQUEST")
  ELSE IF ~IsValidDealStage(req.stage) THEN Fail(400, "INVALID_STAGE")
  ELSE LET deal == deals[id]
           closed == req.stage = DealStageClosedWon \/ req.stage = DealStageClosedLost
           d1 == [deal EXCEPT !.stage = req.stage]
           d2 == IF closed THEN [d1 EXCEPT !.actual_close_date = Ptr(now)] ELSE d1
           d3 == IF closed /\ req.stage = DealStageClosedLost /\ req.lost_reason # ""
                 THEN [d2 EXCEPT !.lost_reason = req.lost_reason]
                 ELSE IF req.stage # DealStageClosedLost THEN [d2 EXCEPT !.lost_reason = ""]
                 ELSE d2
       IN IF fault = "persist" THEN Fail(500, "DATABASE_ERROR")
          ELSE /\ deals' = [deals EXCEPT ![id] = d3]
               /\ logAudit(ctx, "deal", id, "update", fault)
               /\ Reply(200, "")
               /\ UNCHANGED <<customers, contacts, activities, tags, customer_tags>>

\* PATCH /admin/deals/:id
PatchDeal(ctx, id, req, fault) ==
  IF id < 0 THEN Fail(400, "INVALID_ID")
  ELSE IF ~Found(deals, id) THEN Fail(404, "DEAL_NOT_FOUND")
  ELSE IF req.stage = "" THEN Fail(400, "INVALID_REQUEST")
  ELSE IF ~IsValidDealStage(req.stage) THEN Fail(400, "INVALID_STAGE")
  ELSE LET deal == deals[id]
           closed == req.stage = DealStageClosedWon \/ req.stage = DealStageClosedLost
           d1 == [deal EXCEPT !.stage = req.stage]
           d2 == IF closed THEN [d1 EXCEPT !.actual_close_date = Ptr(now)] ELSE d1
           d3 == IF closed /\ req.stage = DealStageClosedLost /\ req.lost_reason # ""
                 THEN [d2 EXCEPT !.lost_reason = req.lost_reason] ELSE d2
       IN IF fault = "persist" THEN Fail(500, "DATABASE_ERROR")
          ELSE /\ deals' = [deals EXCEPT ![id] = d3]
               /\ logAudit(ctx, "deal", id, "update", fault)
               /\ Reply(200, "")
               /\ UNCHANGED <<customers, contacts, activities, tags, customer_tags>>

DeleteDealUnscoped(ctx, id, fault) ==
  IF id < 0 THEN Fail(400, "INVALID_ID")
  ELSE IF id \notin 1..Len(deals) THEN Fail(404, "DEAL_NOT_FOUND")
  ELSE IF fault = "persist" THEN Fail(500, "DATABASE_ERROR")
  ELSE /\ deals' = [deals EXCEPT ![id].deleted = TRUE]
       /\ logAudit(ctx, "deal", id, "delete", fault)
       /\ Reply(200, "")
       /\ UNCHANGED <<customers, contacts, activities, tags, customer_tags>>

\* DELETE /admin/deals/:id
DeleteDeal(ctx, id, fault) ==
  IF id < 0 THEN Fail(400, "INVALID_ID")
  ELSE IF ~Found(deals, id) THEN Fail(404, "DEAL_NOT_FOUND")
  ELSE IF fault = "persist" THEN Fail(500, "DATABASE_ERROR")
  ELSE /\ deals' = [deals EXCEPT ![id].deleted = TRUE]
       /\ logAudit(ctx, "deal", id, "delete", fault)
       /\ Reply(200, "")
       /\ UNCHANGED <<customers, contacts, activities, tags, customer_tags>>


(***************************************************************************)
(* Activities (models/activity.go, handlers/activities.go).                *)
(***************************************************************************)
ActivityStatusScheduled == "scheduled"
ActivityStatusCompleted == "completed"
ActivityStatusCancelled == "cancelled"
ActivityStatusOverdue == "overdue"

\* activities.customer_id REFERENCES customers(id), deal_id REFERENCES deals(id)
ActivityLinksExist(a) ==
  /\ a.customer_id # NULL => Deref(a.customer_id) \in 1..Len(customers)
  /\ a.deal_id # NULL => Deref(a.deal_id) \in 1..Len(deals)

CreateActivityNoLinkCheck(ctx, req, fault) ==
  IF req.title = "" \/ req.type = "" THEN Fail(400, "INVALID_REQUEST")
  ELSE LET status == IF req.status = "" THEN ActivityStatusScheduled ELSE req.status
           activity == [customer_id |-> req.customer_id, deal_id |-> req.deal_id,
                        assigned_to |-> req.assigned_to,
                        status |-> status, completed_at |-> NULL, deleted |-> FALSE]
       IN IF fault = "persist" \/ ~ActivityLinksExist(activity) THEN Fail(500, "DATABASE_ERROR")
          ELSE /\ Len(activities) < MaxActivities
               /\ activities' = Append(activities, activity)
               /\ logAudit(ctx, "activity", Len(activities) + 1, "create", fault)
               /\ Reply(201, "")
               /\ UNCHANGED <<customers, contacts, deals, tags, customer_tags>>

\* POST /admin/activities
CreateActivity(ctx, req, fault) ==
  IF req.title = "" \/ req.type = "" THEN Fail(400, "INVALID_REQUEST")
  ELSE IF req.customer_id = NULL /\ req.deal_id = NULL THEN Fail(400, "MISSING_LINK")
  ELSE LET status == IF req.status = "" THEN ActivityStatusScheduled ELSE req.status
           activity == [customer_id |-> req.customer_id, deal_id |-> req.deal_id,
                        assigned_to |-> req.assigned_to,
                        status |-> status, completed_at |-> NULL, deleted |-> FALSE]
       IN IF fault = "persist" \/ ~ActivityLinksExist(activity) THEN Fail(500, "DATABASE_ERROR")
          ELSE /\ Len(activities) < MaxActivities
               /\ activities' = Append(activities, activity)
               /\ logAudit(ctx, "activity", Len(activities) + 1, "create", fault)
               /\ Reply(201, "")
               /\ UNCHANGED <<customers, contacts, deals, tags, customer_tags>>

UpdateActivityAssignsLinks(ctx, id, req, fault) ==
  IF id < 0 THEN Fail(400, "INVALID_ID")
  ELSE IF ~Found(activities, id) THEN Fail(404, "ACTIVITY_NOT_FOUND")
  ELSE LET activity == activities[id]
           a1 == IF req.status # "" THEN [activity EXCEPT !.status = req.status] ELSE activity
           a2 == [a1 EXCEPT !.customer_id = req.customer_id]
           a3 == [a2 EXCEPT !.deal_id = req.deal_id]
           a3b == IF req.assigned_to # NULL THEN [a3 EXCEPT !.assigned_to = req.assigned_to] ELSE a3
           a4 == IF req.completed_at # NULL THEN [a3b EXCEPT !.completed_at = req.completed_at] ELSE a3b
       IN IF fault = "persist" \/ ~ActivityLinksExist(a4) THEN Fail(500, "DATABASE_ERROR")
          ELSE /\ activities' = [activities EXCEPT ![id] = a4]
               /\ logAudit(ctx, "activity", id, "update", fault)
               /\ Reply(200, "")
               /\ UNCHANGED <<customers, contacts, deals, tags, customer_tags>>

\* PUT /admin/activities/:id
UpdateActivity(ctx, id, req, fault) ==
  IF id < 0 THEN Fail(400, "INVALID_ID")
  ELSE IF ~Found(activities, id) THEN Fail(404, "ACTIVITY_NOT_FOUND")
  ELSE LET activity == activities[id]
           a1 == IF req.status # "" THEN [activity EXCEPT !.status = req.status] ELSE activity
           a2 == IF req.customer_id # NULL THEN [a1 EXCEPT !.customer_id = req.customer_id] ELSE a1
           a3 == IF req.deal_id # NULL THEN [a2 EXCEPT !.deal_id = req.deal_id] ELSE a2
           a3b == IF req.assigned_to # NULL THEN [a3 EXCEPT !.assigned_to = req.assigned_to] ELSE a3
           a4 == IF req.completed_at # NULL THEN [a3b EXCEPT !.completed_at = req.completed_at] ELSE a3b
       IN IF fault = "persist" \/ ~ActivityLinksExist(a4) THEN Fail(500, "DATABASE_ERROR")
          ELSE /\ activities' = [activities EXCEPT ![id] = a4]
               /\ logAudit(ctx, "activity", id, "update", fault)
               /\ Reply(200, "")
               /\ UNCHANGED <<customers, contacts, deals, tags, customer_tags>>

\* PATCH /admin/activities/:id
PatchActivity(ctx, id, req, fault) ==
  IF id < 0 THEN Fail(400, "INVALID_ID")
  ELSE IF ~Found(activities, id) THEN Fail(404, "ACTIVITY_NOT_FOUND")
  ELSE IF req.status = "" THEN Fail(400, "INVALID_REQUEST")
  ELSE LET activity == activities[id]
           a1 == [activity EXCEPT !.status = req.status]
           a2 == IF req.status = ActivityStatusCompleted
                 THEN [a1 EXCEPT !.completed_at = Ptr(now)] ELSE a1
       IN IF fault = "persist" THEN Fail(500, "DATABASE_ERROR")
          ELSE /\ activities' = [activities EXCEPT ![id] = a2]
               /\ logAudit(ctx, "activity", id, "update", fault)
               /\ Reply(200, "")
               /\ UNCHANGED <<customers, contacts, deals, tags, customer_tags>>

\* DELETE /admin/activities/:id
DeleteActivity(ctx, id, fault) ==
  IF id < 0 THEN Fail(400, "INVALID_ID")
  ELSE IF ~Found(activities, id) THEN Fail(404, "ACTIVITY_NOT_FOUND")
  ELSE IF fault = "persist" THEN Fail(500, "DATABASE_ERROR")
  ELSE /\ activities' = [activities EXCEPT ![id].deleted = TRUE]
       /\ logAudit(ctx, "activity", id, "delete", fault)
       /\ Reply(200, "")
       /\ UNCHANGED <<customers, contacts, deals, tags, customer_tags>>

(***************************************************************************)
(* Tags (models/tag.go, handlers/tags.go).  customer_tags is the join      *)
(* table, a set of <<customer_id, tag_id>>.                                *)
(***************************************************************************)
\* the unique index on tags.name covers every row
TagNameUniqueViolation(name, selfId) ==
  \E i \in 1..Len(tags) : i # selfId /\ tags[i].name = name

\* h.db.Where("name = ? [AND id != ?]").First(&existing): err == nil
TagNameTaken(name, selfId) ==
  \E i \in Live(tags) : i # selfId /\ tags[i].name = name

\* POST /admin/tags
CreateTag(ctx, req, fault) ==
  IF req.name = "" THEN Fail(400, "INVALID_REQUEST")
  ELSE IF TagNameTaken(req.name, 0) THEN Fail(409, "TAG_EXISTS")
  ELSE IF fault = "persist" \/ TagNameUniqueViolation(req.name, 0) THEN Fail(500, "DATABASE_ERROR")
  ELSE /\ Len(tags) < MaxTags
       /\ tags' = Append(tags, [name |-> req.name, deleted |-> FALSE])
       /\ logAudit(ctx, "tag", Len(tags) + 1, "create", fault)
       /\ Reply(201, "")
       /\ UNCHANGED <<customers, contacts, deals, activities, customer_tags>>

\* PUT /admin/tags/:id
UpdateTag(ctx, id, req, fault) ==
  IF id < 0 THEN Fail(400, "INVALID_ID")
  ELSE IF ~Found(tags, id) THEN Fail(404, "TAG_NOT_FOUND")
  ELSE LET tag == tags[id]
           changing == req.name # "" /\ req.name # tag.name
       IN IF changing /\ TagNameTaken(req.name, id) THEN Fail(409, "TAG_EXISTS")
          ELSE LET t1 == IF changing THEN [tag EXCEPT !.name = req.name] ELSE tag
               IN IF fault = "persist" \/ TagNameUniqueViolation(t1.name, id)
                  THEN Fail(500, "DATABASE_ERROR")
                  ELSE /\ tags' = [tags EXCEPT ![id] = t1]
                       /\ logAudit(ctx, "tag", id, "update", fault)
                       /\ Reply(200, "")
                       /\ UNCHANGED <<customers, contacts, deals, activities, customer_tags>>

\* h.db.Model(&tag).Association("Customers").Clear()
ClearTagAssociations(id) == {ct \in customer_tags : ct[2] # id}

DeleteTagKeepsAssociations(ctx, id, fault) ==
  IF id < 0 THEN Fail(400, "INVALID_ID")
  ELSE IF ~Found(tags, id) THEN Fail(404, "TAG_NOT_FOUND")
  ELSE IF fault = "persist" THEN Fail(500, "DATABASE_ERROR")
  ELSE /\ tags' = [tags EXCEPT ![id].deleted = TRUE]
       /\ logAudit(ctx, "tag", id, "delete", fault)
       /\ Reply(200, "")
       /\ UNCHANGED <<customers, contacts, deals, activities, customer_tags>>

\* DELETE /admin/tags/:id
DeleteTag(ctx, id, fault) ==
  IF id < 0 THEN Fail(400, "INVALID_ID")
  ELSE IF ~Found(tags, id) THEN Fail(404, "TAG_NOT_FOUND")
  ELSE IF fault = "persist"
       THEN /\ customer_tags' = ClearTagAssociations(id)
            /\ Reply(500, "DATABASE_ERROR")
            /\ UNCHANGED <<customers, contacts, deals, activities, tags, audit_logs>>
       ELSE /\ customer_tags' = ClearTagAssociations(id)
            /\ tags' = [tags EXCEPT ![id].deleted = TRUE]
            /\ logAudit(ctx, "tag", id, "delete", fault)
            /\ Reply(200, "")
            /\ UNCHANGED <<customers, contacts, deals, activities>>

\* POST /admin/customers/:id/tags/:tagId
AssignTagToCustomer(ctx, customerID, tagID, fault) ==
  IF customerID < 0 \/ tagID < 0 THEN Fail(400, "INVALID_ID")
  ELSE IF ~Found(customers, customerID) THEN Fail(404, "CUSTOMER_NOT_FOUND")
  ELSE IF ~Found(tags, tagID) THEN Fail(404, "TAG_NOT_FOUND")
  ELSE IF fault = "persist" THEN Fail(500, "DATABASE_ERROR")
  ELSE /\ customer_tags' = customer_tags \cup {<<customerID, tagID>>}
       /\ Reply(200, "")
       /\ UNCHANGED <<customers, contacts, deals, activities, tags, audit_logs>>

\* DELETE /admin/customers/:id/tags/:tagId
RemoveTagFromCustomer(ctx, customerID, tagID, fault) ==
  IF customerID < 0 \/ tagID < 0 THEN Fail(400, "INVALID_ID")
  ELSE IF ~Found(customers, customerID) THEN Fail(404, "CUSTOMER_NOT_FOUND")
  ELSE IF ~Found(tags, tagID) THEN Fail(404, "TAG_NOT_FOUND")
  ELSE IF fault = "persist" THEN Fail(500, "DATABASE_ERROR")
  ELSE /\ customer_tags' = customer_tags \ {<<customerID, tagID>>}
       /\ Reply(200, "")
       /\ UNCHANGED <<customers, contacts, deals, activities, tags, audit_logs>>


(***************************************************************************)
(* The query layer of the list endpoints.  A query-string parameter is     *)
(* <<>> when the request does not carry it, Num(n) when its text is the    *)
(* decimal numeral of n and Text(s) for any other text.  A query result is *)
(* the sequence of the selected rows' keys, in the order of its ORDER BY   *)
(* (created_at grows with the key).                                        *)
(***************************************************************************)
NoParam == <<>>
Num(n) == <<"num", n>>
Text(s) == <<"text", s>>

\* c.DefaultQuery(key, defaultValue)
DefaultQuery(param, defaultValue) == IF param = NoParam THEN defaultValue ELSE param

\* strconv.Atoi with the error dropped: 0 for a text that is not a numeral
Atoi(s) == IF s[1] = "num" THEN s[2] ELSE 0

page(q) ==
  LET p == Atoi(DefaultQuery(q.page, Num(1))) IN IF p < 1 THEN 1 ELSE p

pageSize(q) ==
  LET n == Atoi(DefaultQuery(q.page_size, Num(20))) IN IF n < 1 \/ n > 100 THEN 20 ELSE n

totalPagesFloor(total, size) == total \div size

\* int(math.Ceil(float64(total) / float64(pageSize)))
totalPages(total, size) == (total + size - 1) \div size

Ascending(S) ==
  [k \in 1..Cardinality(S) |-> CHOOSE x \in S : Cardinality({y \in S : y < x}) = k - 1]

Descending(S) ==
  [k \in 1..Cardinality(S) |-> CHOOSE x \in S : Cardinality({y \in S : y > x}) = k - 1]

\* query.Offset(offset).Limit(limit).Find(&rows)
OffsetLimit(rows, offset, limit) ==
  LET upto == IF offset + limit < Len(rows) THEN offset + limit ELSE Len(rows)
  IN IF offset >= Len(rows) THEN <<>> ELSE SubSeq(rows, offset + 1, upto)

\* query.Count(&total), the page of the rows, and the list response built of them
ListResponse(rows, q) ==
  [data |-> OffsetLimit(rows, (page(q) - 1) * pageSize(q), pageSize(q)),
   total |-> Len(rows),
   page |-> page(q),
   page_size |-> pageSize(q),
   total_pages |-> totalPages(Len(rows), pageSize(q))]

\* JOIN customer_tags ON customer_tags.customer_id = customers.id WHERE
\* customer_tags.tag_id IN ids: one row for every association that matches
JoinCustomerTags(matching, ids) ==
  LET joined == {ct \in customer_tags :
                   ct[1] \in matching /\ \E k \in 1..Len(ids) : ids[k] = ct[2]}
      before(y, x) == y[1] > x[1] \/ (y[1] = x[1] /\ y[2] < x[2])
  IN [k \in 1..Cardinality(joined) |->
        (CHOOSE x \in joined : Cardinality({y \in joined : before(y, x)}) = k - 1)[1]]

\* GET /admin/customers (the status and tags filters; ORDER BY created_at desc)
ListCustomers(ctx, q) ==
  LET matching == {i \in Live(customers) : q.status = "" \/ customers[i].status = q.status}
      rows == IF q.tags = <<>> THEN Descending(matching) ELSE JoinCustomerTags(matching, q.tags)
  IN /\ ReplyData(200, ListResponse(rows, q))
     /\ UNCHANGED <<stores, audit_logs>>

\* GET /admin/customers/:id/contacts (ORDER BY is_primary DESC, created_at ASC)
ListContacts(ctx, customerID, q) ==
  IF customerID < 0 THEN Fail(400, "INVALID_ID")
  ELSE IF ~Found(customers, customerID) THEN Fail(404, "CUSTOMER_NOT_FOUND")
  ELSE LET mine == {i \in Live(contacts) : contacts[i].customer_id = customerID}
           rows == Ascending({i \in mine : contacts[i].is_primary})
                     \o Ascending({i \in mine : ~contacts[i].is_primary})
       IN /\ ReplyData(200, ListResponse(rows, q))
          /\ UNCHANGED <<stores, audit_logs>>

\* GET /admin/deals (ORDER BY created_at desc)
ListDeals(ctx, q) ==
  /\ ReplyData(200, ListResponse(Descending(Live(deals)), q))
  /\ UNCHANGED <<stores, audit_logs>>

\* GET /admin/deals/:id
GetDeal(ctx, id) ==
  IF id < 0 THEN Fail(400, "INVALID_ID")
  ELSE IF ~Found(deals, id) THEN Fail(404, "DEAL_NOT_FOUND")
  ELSE /\ ReplyData(200, [deal |-> deals[id]])
       /\ UNCHANGED <<stores, audit_logs>>

\* GET /admin/activities (ORDER BY due_date asc; no activity of the model has a due date)
ListActivities(ctx, q) ==
  /\ ReplyData(200, ListResponse(Ascending(Live(activities)), q))
  /\ UNCHANGED <<stores, audit_logs>>

\* GET /admin/me/activities: assigned_to = user.ID, status scheduled or overdue
GetMyActivities(ctx, q) ==
  IF "user" \notin DOMAIN ctx THEN Fail(401, "NO_USER_CONTEXT")
  ELSE LET matching == {i \in Live(activities) :
                          /\ activities[i].assigned_to = Ptr(ctx.user.ID)
                          /\ activities[i].status \in {ActivityStatusScheduled, ActivityStatusOverdue}}
       IN /\ ReplyData(200, ListResponse(Ascending(matching), q))
          /\ UNCHANGED <<stores, audit_logs>>

\* GET /admin/activities/:id
GetActivity(ctx, id) ==
  IF id < 0 THEN Fail(400, "INVALID_ID")
  ELSE IF ~Found(activities, id) THEN Fail(404, "ACTIVITY_NOT_FOUND")
  ELSE /\ ReplyData(200, [activity |-> activities[id]])
       /\ UNCHANGED <<stores, audit_logs>>

\* GET /admin/tags (ORDER BY name; the order is not observed)
ListTags(ctx) ==
  /\ ReplyData(200, [data |-> Ascending(Live(tags)), total |-> Cardinality(Live(tags))])
  /\ UNCHANGED <<stores, audit_logs>>

\* GET /admin/reports/overview: the totals and the five most recent deals
GetOverview(ctx) ==
  /\ ReplyData(200, [customers |-> Cardinality(Live(customers)),
                     deals |-> Cardinality(Live(deals)),
                     activities |-> Cardinality(Live(activities)),
                     recent_deals |-> OffsetLimit(Descending(Live(deals)), 0, 5)])
  /\ UNCHANGED <<stores, audit_logs>>


(***************************************************************************)
(* The router (routes/routes.go): the gate of every /admin route, and one  *)
(* action per route.  P is the traffic profile of a specification: the     *)
(* headers, path ids and storage faults it draws from, and the number of   *)
(* audit rows after which it stops.                                        *)
(***************************************************************************)
RouteGate ==
  [GetMe |-> NoGate,
   GetMyActivities |-> NoGate,
   ListCustomers |-> NoGate,
   GetCustomer |-> NoGate,
   ListContacts |-> NoGate,
   ListDeals |-> NoGate,
   GetDeal |-> NoGate,
   ListActivities |-> NoGate,
   GetActivity |-> NoGate,
   ListTags |-> NoGate,
   GetOverview |-> NoGate,
   CreateCustomer |-> NeedPermission(PermissionWrite),
   UpdateCustomer |-> NeedPermission(PermissionWrite),
   PatchCustomer |-> NeedPermission(PermissionWrite),
   DeleteCustomer |-> NeedPermission(PermissionDelete),
   CreateContact |-> NeedPermission(PermissionWrite),
   AssignTagToCustomer |-> NeedPermission(PermissionWrite),
   RemoveTagFromCustomer |-> NeedPermission(PermissionWrite),
   UpdateContact |-> NeedPermission(PermissionWrite),
   DeleteContact |-> NeedPermission(PermissionDelete),
   CreateDeal |-> NeedPermission(PermissionWrite),
   UpdateDeal |-> NeedPermission(PermissionWrite),
   PatchDeal |-> NeedPermission(PermissionWrite),
   DeleteDeal |-> NeedPermission(PermissionDelete),
   CreateActivity |-> NeedPermission(PermissionWrite),
   UpdateActivity |-> NeedPermission(PermissionWrite),
   PatchActivity |-> NeedPermission(PermissionWrite),
   DeleteActivity |-> NeedPermission(PermissionDelete),
   CreateTag |-> NeedRole(RoleAdmin),
   UpdateTag |-> NeedRole(RoleAdmin),
   DeleteTag |-> NeedRole(RoleAdmin)]

\* the admin group: JWTAuth, then the gate of the route; the handler runs
\* only when neither aborts
Admit(h, op) ==
  LET a == JWTAuth(h) IN IF a.aborted THEN a ELSE Guard(RouteGate[op], a.ctx)

\* a request arrives; requests are served one at a time
Request(op, h, id, req, f) ==
  /\ last' = [op |-> op, hdr |-> h, id |-> id, req |-> req, fault |-> f]
  /\ UNCHANGED <<now, procs>>

\* the response is out
Served == lastOK' = IF resp'.status < 300 THEN last' ELSE lastOK

\* GET /admin/me
GetMe(ctx) ==
  IF "user" \notin DOMAIN ctx THEN Fail(401, "NO_USER_CONTEXT")
  ELSE LET permissions == IF ctx.user.Role \in DOMAIN RolePermissions
                          THEN RolePermissions[ctx.user.Role] ELSE <<>>
       IN /\ ReplyData(200, [user |-> ctx.user, permissions |-> permissions])
          /\ UNCHANGED <<stores, audit_logs>>

\* GET /admin/customers/:id
GetCustomer(ctx, id) ==
  IF id < 0 THEN Fail(400, "INVALID_ID")
  ELSE IF ~Found(customers, id) THEN Fail(404, "CUSTOMER_NOT_FOUND")
  ELSE /\ ReplyData(200, [customer |-> customers[id],
                          contacts_count |->
                            Cardinality({i \in Live(contacts) : contacts[i].customer_id = id})])
       /\ UNCHANGED <<stores, audit_logs>>

RGetMe(P) ==
  \E h \in P.headers :
    /\ Len(audit_logs) < P.cap
    /\ Request("GetMe", h, 0, <<>>, "none")
    /\ LET a == Admit(h, "GetMe") IN
       IF a.aborted THEN AbortWithStatusJSON(a.status, a.code)
       ELSE GetMe(a.ctx)
    /\ Served

RGetCustomer(P) ==
  \E h \in P.headers, id \in P.ids :
    /\ Len(audit_logs) < P.cap
    /\ Request("GetCustomer", h, id, <<>>, "none")
    /\ LET a == Admit(h, "GetCustomer") IN
       IF a.aborted THEN AbortWithStatusJSON(a.status, a.code)
       ELSE GetCustomer(a.ctx, id)
    /\ Served

RGetMyActivities(P, Q) ==
  \E h \in P.headers, q \in Q :
    /\ Len(audit_logs) < P.cap
    /\ Request("GetMyActivities", h, 0, q, "none")
    /\ LET a == Admit(h, "GetMyActivities") IN
       IF a.aborted THEN AbortWithStatusJSON(a.status, a.code)
       ELSE GetMyActivities(a.ctx, q)
    /\ Served

RListCustomers(P, Q) ==
  \E h \in P.headers, q \in Q :
    /\ Len(audit_logs) < P.cap
    /\ Request("ListCustomers", h, 0, q, "none")
    /\ LET a == Admit(h, "ListCustomers") IN
       IF a.aborted THEN AbortWithStatusJSON(a.status, a.code)
       ELSE ListCustomers(a.ctx, q)
    /\ Served

RListContacts(P, Q) ==
  \E h \in P.headers, id \in P.ids, q \in Q :
    /\ Len(audit_logs) < P.cap
    /\ Request("ListContacts", h, id, q, "none")
    /\ LET a == Admit(h, "ListContacts") IN
       IF a.aborted THEN AbortWithStatusJSON(a.status, a.code)
       ELSE ListContacts(a.ctx, id, q)
    /\ Served

RListDeals(P, Q) ==
  \E h \in P.headers, q \in Q :
    /\ Len(audit_logs) < P.cap
    /\ Request("ListDeals", h, 0, q, "none")
    /\ LET a == Admit(h, "ListDeals") IN
       IF a.aborted THEN AbortWithStatusJSON(a.status, a.code)
       ELSE ListDeals(a.ctx, q)
    /\ Served

RGetDeal(P) ==
  \E h \in P.headers, id \in P.ids :
    /\ Len(audit_logs) < P.cap
    /\ Request("GetDeal", h, id, <<>>, "none")
    /\ LET a == Admit(h, "GetDeal") IN
       IF a.aborted THEN AbortWithStatusJSON(a.status, a.code)
       ELSE GetDeal(a.ctx, id)
    /\ Served

RListActivities(P, Q) ==
  \E h \in P.headers, q \in Q :
    /\ Len(audit_logs) < P.cap
    /\ Request("ListActivities", h, 0, q, "none")
    /\ LET a == Admit(h, "ListActivities") IN
       IF a.aborted THEN AbortWithStatusJSON(a.status, a.code)
       ELSE ListActivities(a.ctx, q)
    /\ Served

RGetActivity(P) ==
  \E h \in P.headers, id \in P.ids :
    /\ Len(audit_logs) < P.cap
    /\ Request("GetActivity", h, id, <<>>, "none")
    /\ LET a == Admit(h, "GetActivity") IN
       IF a.aborted THEN AbortWithStatusJSON(a.status, a.code)
       ELSE GetActivity(a.ctx, id)
    /\ Served

RListTags(P) ==
  \E h \in P.headers :
    /\ Len(audit_logs) < P.cap
    /\ Request("ListTags", h, 0, <<>>, "none")
    /\ LET a == Admit(h, "ListTags") IN
       IF a.aborted THEN AbortWithStatusJSON(a.status, a.code)
       ELSE ListTags(a.ctx)
    /\ Served

RGetOverview(P) ==
  \E h \in P.headers :
    /\ Len(audit_logs) < P.cap
    /\ Request("GetOverview", h, 0, <<>>, "none")
    /\ LET a == Admit(h, "GetOverview") IN
       IF a.aborted THEN AbortWithStatusJSON(a.status, a.code)
       ELSE GetOverview(a.ctx)
    /\ Served

RCreateCustomer(P, R) ==
  \E h \in P.headers, req \in R, f \in P.faults :
    /\ Len(audit_logs) < P.cap
    /\ Request("CreateCustomer", h, 0, req, f)
    /\ LET a == Admit(h, "CreateCustomer") IN
       IF a.aborted THEN AbortWithStatusJSON(a.status, a.code)
       ELSE CreateCustomer(a.ctx, req, f)
    /\ Served

RUpdateCustomer(P, R) ==
  \E h \in P.headers, id \in P.ids, req \in R, f \in P.faults :
    /\ Len(audit_logs) < P.cap
    /\ Request("UpdateCustomer", h, id, req, f)
    /\ LET a == Admit(h, "UpdateCustomer") IN
       IF a.aborted THEN AbortWithStatusJSON(a.status, a.code)
       ELSE UpdateCustomer(a.ctx, id, req, f)
    /\ Served

RPatchCustomer(P, R) ==
  \E h \in P.headers, id \in P.ids, req \in R, f \in P.faults :
    /\ Len(audit_logs) < P.cap
    /\ Request("PatchCustomer", h, id, req, f)
    /\ LET a == Admit(h, "PatchCustomer") IN
       IF a.aborted THEN AbortWithStatusJSON(a.status, a.code)
       ELSE PatchCustomer(a.ctx, id, req, f)
    /\ Served

RDeleteCustomer(P) ==
  \E h \in P.headers, id \in P.ids, f \in P.faults :
    /\ Len(audit_logs) < P.cap
    /\ Request("DeleteCustomer", h, id, <<>>, f)
    /\ LET a == Admit(h, "DeleteCustomer") IN
       IF a.aborted THEN AbortWithStatusJSON(a.status, a.code)
       ELSE DeleteCustomer(a.ctx, id, f)
    /\ Served

RCreateContact(P, R) ==
  \E h \in P.headers, id \in P.ids, req \in R, f \in P.faults :
    /\ Len(audit_logs) < P.cap
    /\ Request("CreateContact", h, id, req, f)
    /\ LET a == Admit(h, "CreateContact") IN
       IF a.aborted THEN AbortWithStatusJSON(a.status, a.code)
       ELSE CreateContact(a.ctx, id, req, f)
    /\ Served

RUpdateContact(P, R) ==
  \E h \in P.headers, id \in P.ids, req \in R, f \in P.faults :
    /\ Len(audit_logs) < P.cap
    /\ Request("UpdateContact", h, id, req, f)
    /\ LET a == Admit(h, "UpdateContact") IN
       IF a.aborted THEN AbortWithStatusJSON(a.status, a.code)
       ELSE UpdateContact(a.ctx, id, req, f)
    /\ Served

RDeleteContact(P) ==
  \E h \in P.headers, id \in P.ids, f \in P.faults :
    /\ Len(audit_logs) < P.cap
    /\ Request("DeleteContact", h, id, <<>>, f)
    /\ LET a == Admit(h, "DeleteContact") IN
       IF a.aborted THEN AbortWithStatusJSON(a.status, a.code)
       ELSE DeleteContact(a.ctx, id, f)
    /\ Served

RCreateDeal(P, R) ==
  \E h \in P.headers, req \in R, f \in P.faults :
    /\ Len(audit_logs) < P.cap
    /\ Request("CreateDeal", h, 0, req, f)
    /\ LET a == Admit(h, "CreateDeal") IN
       IF a.aborted THEN AbortWithStatusJSON(a.status, a.code)
       ELSE CreateDeal(a.ctx, req, f)
    /\ Served

RUpdateDeal(P, R) ==
  \E h \in P.headers, id \in P.ids, req \in R, f \in P.faults :
    /\ Len(audit_logs) < P.cap
    /\ Request("UpdateDeal", h, id, req, f)
    /\ LET a == Admit(h, "UpdateDeal") IN
       IF a.aborted THEN AbortWithStatusJSON(a.status, a.code)
       ELSE UpdateDeal(a.ctx, id, req, f)
    /\ Served

RPatchDeal(P, R) ==
  \E h \in P.headers, id \in P.ids, req \in R, f \in P.faults :
    /\ Len(audit_logs) < P.cap
    /\ Request("PatchDeal", h, id, req, f)
    /\ LET a == Admit(h, "PatchDeal") IN
       IF a.aborted THEN AbortWithStatusJSON(a.status, a.code)
       ELSE PatchDeal(a.ctx, id, req, f)
    /\ Served

RDeleteDeal(P) ==
  \E h \in P.headers, id \in P.ids, f \in P.faults :
    /\ Len(audit_logs) < P.cap
    /\ Request("DeleteDeal", h, id, <<>>, f)
    /\ LET a == Admit(h, "DeleteDeal") IN
       IF a.aborted THEN AbortWithStatusJSON(a.status, a.code)
       ELSE DeleteDeal(a.ctx, id, f)
    /\ Served

RCreateActivity(P, R) ==
  \E h \in P.headers, req \in R, f \in P.faults :
    /\ Len(audit_logs) < P.cap
    /\ Request("CreateActivity", h, 0, req, f)
    /\ LET a == Admit(h, "CreateActivity") IN
       IF a.aborted THEN AbortWithStatusJSON(a.status, a.code)
       ELSE CreateActivity(a.ctx, req, f)
    /\ Served

RUpdateActivity(P, R) ==
  \E h \in P.headers, id \in P.ids, req \in R, f \in P.faults :
    /\ Len(audit_logs) < P.cap
    /\ Request("UpdateActivity", h, id, req, f)
    /\ LET a == Admit(h, "UpdateActivity") IN
       IF a.aborted THEN AbortWithStatusJSON(a.status, a.code)
       ELSE UpdateActivity(a.ctx, id, req, f)
    /\ Served

RPatchActivity(P, R) ==
  \E h \in P.headers, id \in P.ids, req \in R, f \in P.faults :
    /\ Len(audit_logs) < P.cap
    /\ Request("PatchActivity", h, id, req, f)
    /\ LET a == Admit(h, "PatchActivity") IN
       IF a.aborted THEN AbortWithStatusJSON(a.status, a.code)
       ELSE PatchActivity(a.ctx, id, req, f)
    /\ Served

RDeleteActivity(P) ==
  \E h \in P.headers, id \in P.ids, f \in P.faults :
    /\ Len(audit_logs) < P.cap
    /\ Request("DeleteActivity", h, id, <<>>, f)
    /\ LET a == Admit(h, "DeleteActivity") IN
       IF a.aborted THEN AbortWithStatusJSON(a.status, a.code)
       ELSE DeleteActivity(a.ctx, id, f)
    /\ Served

RCreateTag(P, R) ==
  \E h \in P.headers, req \in R, f \in P.faults :
    /\ Len(audit_logs) < P.cap
    /\ Request("CreateTag", h, 0, req, f)
    /\ LET a == Admit(h, "CreateTag") IN
       IF a.aborted THEN AbortWithStatusJSON(a.status, a.code)
       ELSE CreateTag(a.ctx, req, f)
    /\ Served

RUpdateTag(P, R) ==
  \E h \in P.headers, id \in P.ids, req \in R, f \in P.faults :
    /\ Len(audit_logs) < P.cap
    /\ Request("UpdateTag", h, id, req, f)
    /\ LET a == Admit(h, "UpdateTag") IN
       IF a.aborted THEN AbortWithStatusJSON(a.status, a.code)
       ELSE UpdateTag(a.ctx, id, req, f)
    /\ Served

RDeleteTag(P) ==
  \E h \in P.headers, id \in P.ids, f \in P.faults :
    /\ Len(audit_logs) < P.cap
    /\ Request("DeleteTag", h, id, <<>>, f)
    /\ LET a == Admit(h, "DeleteTag") IN
       IF a.aborted THEN AbortWithStatusJSON(a.status, a.code)
       ELSE DeleteTag(a.ctx, id, f)
    /\ Served

RAssignTagToCustomer(P) ==
  \E h \in P.headers, id \in P.ids, tagID \in P.ids, f \in P.faults :
    /\ Len(audit_logs) < P.cap
    /\ Request("AssignTagToCustomer", h, id, [tag_id |-> tagID], f)
    /\ LET a == Admit(h, "AssignTagToCustomer") IN
       IF a.aborted THEN AbortWithStatusJSON(a.status, a.code)
       ELSE AssignTagToCustomer(a.ctx, id, tagID, f)
    /\ Served

RRemoveTagFromCustomer(P) ==
  \E h \in P.headers, id \in P.ids, tagID \in P.ids, f \in P.faults :
    /\ Len(audit_logs) < P.cap
    /\ Request("RemoveTagFromCustomer", h, id, [tag_id |-> tagID], f)
    /\ LET a == Admit(h, "RemoveTagFromCustomer") IN
       IF a.aborted THEN AbortWithStatusJSON(a.status, a.code)
       ELSE RemoveTagFromCustomer(a.ctx, id, tagID, f)
    /\ Served

\* time passes between requests
Tick ==
  /\ now < MaxTime
  /\ now' = now + 1
  /\ UNCHANGED <<stores, audit_logs, resp, last, lastOK, procs>>

NoRequest == [op |-> "", hdr |-> <<>>, id |-> 0, req |-> <<>>, fault |-> "none"]
NoResponse == [status |-> 0, code |-> ""]

\* the service after start-up over an empty database
InitEmpty ==
  /\ customers = <<>>
  /\ contacts = <<>>
  /\ deals = <<>>
  /\ activities = <<>>
  /\ tags = <<>>
  /\ customer_tags = {}
  /\ audit_logs = <<>>
  /\ now = 0
  /\ resp = NoResponse
  /\ last = NoRequest
  /\ lastOK = NoRequest
  /\ procs = <<>>

(***************************************************************************)
(* Customer traffic, one request at a time.                                *)
(***************************************************************************)
CustomerProfile ==
  [headers |-> StaffHeaders, ids |-> -1..MaxCustomers, faults |-> {"none", "persist"}, cap |-> MaxAudit]

CustomerCreateRequests ==
  { [name |-> n, email |-> e, status |-> "", assigned_to |-> NULL, next_follow_up_at |-> NULL] :
      n \in {"", "n1"}, e \in {NoEmail, EmailA, EmailB, EmailShortTld} }

CustomerUpdateRequests ==
  { [name |-> n, email |-> e, status |-> "", assigned_to |-> NULL, contacted |-> NULL,
     next_follow_up_at |-> NULL] :
      n \in {"", "n2"}, e \in {NoEmail, EmailA, EmailB, EmailShortTld} }

NextCustomer ==
  \/ RCreateCustomer(CustomerProfile, CustomerCreateRequests)
  \/ RUpdateCustomer(CustomerProfile, CustomerUpdateRequests)
  \/ RDeleteCustomer(CustomerProfile)

SpecCustomer == InitEmpty /\ [][NextCustomer]_vars

\* a create request that passes binding and isValidEmail
WellFormedCreate(req) == req.name # "" /\ BindingEmail(req.email) /\ isValidEmail(req.email)

\* C3: two CreateCustomer calls in sequence with one email e, which no
\* non-deleted customer held when the first call came and with the storage
\* healthy: the first call succeeds (201), the second is answered 409
\* EMAIL_EXISTS and stores nothing; and an UpdateCustomer that changes the
\* email to one held by another non-deleted customer is answered 409
\* EMAIL_EXISTS and leaves the customers table as it was.
C3DuplicateEmailRejected ==
  [][ /\ ( /\ last.op = "CreateCustomer" /\ last'.op = "CreateCustomer"
           /\ last.hdr \in StaffHeaders /\ last'.hdr \in StaffHeaders
           /\ WellFormedCreate(last.req) /\ WellFormedCreate(last'.req)
           /\ last.req.email = last'.req.email
           /\ last.fault = "none" /\ last'.fault = "none"
           /\ resp.code # "EMAIL_EXISTS" )
         => /\ resp.status = 201
            /\ resp' = [status |-> 409, code |-> "EMAIL_EXISTS"]
            /\ customers' = customers
      /\ ( /\ last'.op = "UpdateCustomer"
           /\ last'.hdr \in StaffHeaders
           /\ Found(customers, last'.id)
           /\ BindingEmail(last'.req.email) /\ isValidEmail(last'.req.email)
           /\ last'.req.email # customers[last'.id].email
           /\ \E i \in Live(customers) : i # last'.id /\ customers[i].email = last'.req.email )
         => /\ resp' = [status |-> 409, code |-> "EMAIL_EXISTS"]
            /\ customers' = customers
    ]_vars

\* C5: email uniqueness is scoped to non-deleted customers: a well-formed
\* CreateCustomer with an email e that only soft-deleted customers hold, with
\* the storage healthy, is answered 201 and stores the new customer with e.
C5RecreateAfterSoftDelete ==
  [][ ( /\ last'.op = "CreateCustomer"
        /\ last'.hdr \in StaffHeaders
        /\ WellFormedCreate(last'.req)
        /\ last'.fault = "none"
        /\ \E i \in 1..Len(customers) : customers[i].deleted /\ customers[i].email = last'.req.email
        /\ ~ \E i \in Live(customers) : customers[i].email = last'.req.email )
      => /\ resp'.status = 201
         /\ Len(customers') = Len(customers) + 1
         /\ customers'[Len(customers')].email = last'.req.email
         /\ ~customers'[Len(customers')].deleted
    ]_vars

(***************************************************************************)
(* Contact traffic, one request at a time, over a database that holds two  *)
(* customers (the state after the admin has created them).                 *)
(***************************************************************************)
AdminCtx == JWTAuth(Bearer(AdminToken)).ctx

SeedCustomerRequest(n, e) ==
  [name |-> n, email |-> e, status |-> "", assigned_to |-> NULL, next_follow_up_at |-> NULL]

SeedCustomer(n, e) ==
  [name |-> n, email |-> e, status |-> CustomerStatusLead, assigned_to |-> NULL,
   contacted |-> FALSE, next_follow_up_at |-> NULL, deleted |-> FALSE]

TwoCustomersAudit ==
  <<AuditRow(AdminCtx, "customer", 1, "create"), AuditRow(AdminCtx, "customer", 2, "create")>>

InitTwoCustomers ==
  /\ customers = <<SeedCustomer("n1", EmailA), SeedCustomer("n1", EmailB)>>
  /\ contacts = <<>>
  /\ deals = <<>>
  /\ activities = <<>>
  /\ tags = <<>>
  /\ customer_tags = {}
  /\ audit_logs = TwoCustomersAudit
  /\ now = 0
  /\ resp = [status |-> 201, code |-> ""]
  /\ last = [op |-> "CreateCustomer", hdr |-> Bearer(AdminToken), id |-> 0,
             req |-> SeedCustomerRequest("n1", EmailB), fault |-> "none"]
  /\ lastOK = [op |-> "CreateCustomer", hdr |-> Bearer(AdminToken), id |-> 0,
               req |-> SeedCustomerRequest("n1", EmailB), fault |-> "none"]
  /\ procs = <<>>

ContactProfile ==
  [headers |-> {Bearer(AdminToken)}, ids |-> 0..MaxContacts,
   faults |-> {"none", "persist"}, cap |-> Len(TwoCustomersAudit) + MaxAudit]

ContactCreateRequests ==
  { [first_name |-> f, is_primary |-> b] : f \in {"", "f1"}, b \in BOOLEAN }

ContactUpdateRequests ==
  { [first_name |-> f, is_primary |-> b] : f \in {"", "f2"}, b \in {NULL, Ptr(TRUE), Ptr(FALSE)} }

NextContact ==
  \/ RCreateContact(ContactProfile, ContactCreateRequests)
  \/ RUpdateContact(ContactProfile, ContactUpdateRequests)
  \/ RDeleteContact(ContactProfile)

SpecContact == InitTwoCustomers /\ [][NextContact]_vars

\* the non-deleted contacts of a customer that carry the primary flag
Primaries(customerID) ==
  {i \in Live(contacts) : contacts[i].customer_id = customerID /\ contacts[i].is_primary}

\* C1: with requests served one at a time, no customer has two primary
\* contacts, and whenever the last successful request is a CreateContact or
\* UpdateContact that set is_primary=true on a contact c, c is the one and
\* only primary contact of its customer.
C1ExactlyOnePrimary ==
  /\ \A customerID \in 1..Len(customers) : Cardinality(Primaries(customerID)) <= 1
  /\ ( /\ lastOK.op = "CreateContact"
       /\ lastOK.req.is_primary )
     => Primaries(contacts[Len(contacts)].customer_id) = {Len(contacts)}
  /\ ( /\ lastOK.op = "UpdateContact"
       /\ lastOK.req.is_primary = Ptr(TRUE) )
     => Primaries(contacts[lastOK.id].customer_id) = {lastOK.id}

(***************************************************************************)
(* Deal traffic, one request at a time, with the clock running.            *)
(***************************************************************************)
DealProfile ==
  [headers |-> {Bearer(AdminToken)}, ids |-> 1..MaxDeals,
   faults |-> {"none"}, cap |-> Len(TwoCustomersAudit) + MaxAudit]

DealCreateRequests ==
  { [title |-> "t", customer_id |-> 1, stage |-> st, probability |-> p] :
      st \in {"", "bogus"}, p \in {-5, 50, 250} }

DealUpdateRequests ==
  { [customer_id |-> NULL, stage |-> st, probability |-> p, actual_close_date |-> NULL,
     lost_reason |-> ""] :
      st \in {"", "bogus", DealStageClosedLost}, p \in {NULL, Ptr(-5), Ptr(250)} }

DealPatchRequests ==
  { [stage |-> st, lost_reason |-> ""] :
      st \in {"", "bogus", DealStageProposal, DealStageClosedWon} }

NextDeal ==
  \/ RCreateDeal(DealProfile, DealCreateRequests)
  \/ RUpdateDeal(DealProfile, DealUpdateRequests)
  \/ RPatchDeal(DealProfile, DealPatchRequests)
  \/ RDeleteDeal(DealProfile)
  \/ Tick

SpecDeal == InitTwoCustomers /\ [][NextDeal]_vars

\* the six stage values of the specification
KnownStages ==
  {"prospecting", "qualification", "proposal", "negotiation", "closed_won", "closed_lost"}

ClosedStages == {"closed_won", "closed_lost"}

\* C6: every stored deal's stage is one of the six known values, and a
\* CreateDeal, UpdateDeal or PatchDeal request that reaches its target with a
\* stage outside the six is answered INVALID_STAGE and leaves the deals as
\* they were.
C6StageOneOfSix ==
  /\ [](\A i \in 1..Len(deals) : deals[i].stage \in KnownStages)
  /\ [][ ( /\ last'.req.stage \notin KnownStages \cup {""}
           /\ \/ last'.op = "CreateDeal" /\ Found(customers, last'.req.customer_id)
              \/ last'.op \in {"UpdateDeal", "PatchDeal"} /\ Found(deals, last'.id) )
         => /\ resp' = [status |-> 400, code |-> "INVALID_STAGE"]
            /\ deals' = deals
       ]_<<deals, last, resp>>

\* C7: whenever a request changes a deal's stored stage into closed_won or
\* closed_lost, the deal's actual_close_date afterwards is the time of that
\* request.
C7CloseStampsActualCloseDate ==
  [][ \A i \in 1..Len(deals) :
        ( /\ deals'[i].stage # deals[i].stage
          /\ deals'[i].stage \in ClosedStages )
        => deals'[i].actual_close_date = Ptr(now)
    ]_deals

\* max(0, min(100, p))
Clamped(p) == IF p < 0 THEN 0 ELSE IF p > 100 THEN 100 ELSE p

\* C8: every stored probability lies in 0..100; a successful CreateDeal
\* stores max(0, min(100, p)) of the p it was given, a successful UpdateDeal
\* that carries a probability does the same on its target, and no step
\* changes the probability of any other deal.
C8ProbabilityClamped ==
  /\ [](\A i \in 1..Len(deals) : deals[i].probability \in 0..100)
  /\ [][ /\ (last'.op = "CreateDeal" /\ resp'.status = 201)
            => /\ Len(deals') = Len(deals) + 1
               /\ deals'[Len(deals')].probability = Clamped(last'.req.probability)
         /\ (last'.op = "UpdateDeal" /\ resp'.status = 200 /\ last'.req.probability # NULL)
            => deals'[last'.id].probability = Clamped(Deref(last'.req.probability))
         /\ \A i \in 1..Len(deals) :
              deals'[i].probability # deals[i].probability
              => /\ last'.op = "UpdateDeal" /\ last'.id = i /\ resp'.status = 200
                 /\ last'.req.probability # NULL
       ]_<<deals, last, resp>>

\* an UpdateDeal given 250 has stored 100 on a deal that held another value
C8Witness ==
  /\ last.op = "UpdateDeal" /\ resp.status = 200
  /\ last.req.probability = Ptr(250)
  /\ deals[last.id].probability = 100
  /\ \E i \in 1..Len(deals) : i # last.id /\ deals[i].probability = 0

(***************************************************************************)
(* The whole /admin surface: every route, called with every kind of        *)
(* Authorization header, over a database that holds one row of each        *)
(* entity (created by the admin, the tag assigned to the customer last).   *)
(***************************************************************************)
PopulatedAudit ==
  <<AuditRow(AdminCtx, "customer", 1, "create"),
    AuditRow(AdminCtx, "contact", 1, "create"),
    AuditRow(AdminCtx, "deal", 1, "create"),
    AuditRow(AdminCtx, "activity", 1, "create"),
    AuditRow(AdminCtx, "tag", 1, "create")>>

Init ==
  /\ customers = <<SeedCustomer("n1", EmailA)>>
  /\ contacts = <<[customer_id |-> 1, first_name |-> "f1", is_primary |-> TRUE, deleted |-> FALSE]>>
  /\ deals = <<[customer_id |-> 1, stage |-> DealStageProspecting, probability |-> 50,
                actual_close_date |-> NULL, lost_reason |-> "", deleted |-> FALSE]>>
  /\ activities = <<[customer_id |-> Ptr(1), deal_id |-> NULL, assigned_to |-> NULL,
                     status |-> ActivityStatusScheduled, completed_at |-> NULL, deleted |-> FALSE]>>
  /\ tags = <<[name |-> "vip", deleted |-> FALSE]>>
  /\ customer_tags = {<<1, 1>>}
  /\ audit_logs = PopulatedAudit
  /\ now = 0
  /\ resp = [status |-> 200, code |-> ""]
  /\ last = [op |-> "AssignTagToCustomer", hdr |-> Bearer(AdminToken), id |-> 1,
             req |-> [tag_id |-> 1], fault |-> "none"]
  /\ lastOK = [op |-> "AssignTagToCustomer", hdr |-> Bearer(AdminToken), id |-> 1,
               req |-> [tag_id |-> 1], fault |-> "none"]
  /\ procs = <<>>

GatewayProfile ==
  [headers |-> AllHeaders, ids |-> {1}, faults |-> {"none"},
   cap |-> Len(PopulatedAudit) + MaxGatewayAudit]

GatewayCustomerCreate == {SeedCustomerRequest("n1", EmailB)}

GatewayCustomerUpdate ==
  {[name |-> "n2", email |-> NoEmail, status |-> "", assigned_to |-> NULL, contacted |-> NULL,
    next_follow_up_at |-> NULL]}

GatewayCustomerPatch ==
  {[status |-> Ptr(CustomerStatusActive), assigned_to |-> NULL, contacted |-> NULL,
    next_follow_up_at |-> NULL]}

GatewayContactCreate == {[first_name |-> "f1", is_primary |-> TRUE]}

GatewayContactUpdate == {[first_name |-> "f2", is_primary |-> NULL]}

GatewayDealCreate == {[title |-> "t", customer_id |-> 1, stage |-> "", probability |-> 50]}

GatewayDealUpdate ==
  {[customer_id |-> NULL, stage |-> DealStageProposal, probability |-> NULL,
    actual_close_date |-> NULL, lost_reason |-> ""]}

GatewayDealPatch == {[stage |-> DealStageNegotiation, lost_reason |-> ""]}

GatewayActivityCreate ==
  {[title |-> "call", type |-> "call", customer_id |-> Ptr(1), deal_id |-> NULL,
    assigned_to |-> NULL, status |-> ""]}

GatewayActivityUpdate ==
  {[status |-> ActivityStatusCancelled, customer_id |-> NULL, deal_id |-> NULL,
    assigned_to |-> NULL, completed_at |-> NULL]}

GatewayActivityPatch == {[status |-> ActivityStatusCompleted]}

GatewayTagCreate == {[name |-> "gold"]}

GatewayTagUpdate == {[name |-> "silver"]}

Next ==
  \/ RGetMe(GatewayProfile)
  \/ RGetCustomer(GatewayProfile)
  \/ RCreateCustomer(GatewayProfile, GatewayCustomerCreate)
  \/ RUpdateCustomer(GatewayProfile, GatewayCustomerUpdate)
  \/ RPatchCustomer(GatewayProfile, GatewayCustomerPatch)
  \/ RDeleteCustomer(GatewayProfile)
  \/ RCreateContact(GatewayProfile, GatewayContactCreate)
  \/ RUpdateContact(GatewayProfile, GatewayContactUpdate)
  \/ RDeleteContact(GatewayProfile)
  \/ RCreateDeal(GatewayProfile, GatewayDealCreate)
  \/ RUpdateDeal(GatewayProfile, GatewayDealUpdate)
  \/ RPatchDeal(GatewayProfile, GatewayDealPatch)
  \/ RDeleteDeal(GatewayProfile)
  \/ RCreateActivity(GatewayProfile, GatewayActivityCreate)
  \/ RUpdateActivity(GatewayProfile, GatewayActivityUpdate)
  \/ RPatchActivity(GatewayProfile, GatewayActivityPatch)
  \/ RDeleteActivity(GatewayProfile)
  \/ RCreateTag(GatewayProfile, GatewayTagCreate)
  \/ RUpdateTag(GatewayProfile, GatewayTagUpdate)
  \/ RDeleteTag(GatewayProfile)
  \/ RAssignTagToCustomer(GatewayProfile)
  \/ RRemoveTagFromCustomer(GatewayProfile)

Spec == Init /\ [][Next]_vars

\* an Authorization header that fails identity verification: absent, not
\* "Bearer <token>" (the scheme in any case), or a token that is malformed,
\* wrongly signed, expired or without a role claim
FailsVerification(h) ==
  IF h = <<>> THEN TRUE
  ELSE IF Len(h) # 2 THEN TRUE
  ELSE \/ h[1] \notin {"Bearer", "bearer", "BEARER"}
       \/ ~h[2].wellformed
       \/ h[2].alg # "HS256"
       \/ ~h[2].signed
       \/ h[2].expired
       \/ h[2].role = ""

\* C9: a request whose Authorization header fails identity verification is
\* answered 401 and changes no entity store and no audit row, whatever the
\* route; with the header absent the code is MISSING_TOKEN.
C9UnverifiedRejected ==
  [][ FailsVerification(last'.hdr)
      => /\ resp'.status = 401
         /\ UNCHANGED <<stores, audit_logs>>
         /\ (last'.hdr = <<>> => resp'.code = "MISSING_TOKEN")
    ]_vars

\* an expired token on DELETE of the stored customer was answered 401
C9Witness ==
  /\ last.op = "DeleteCustomer" /\ last.hdr = Bearer(ExpiredToken)
  /\ Found(customers, last.id)
  /\ resp = [status |-> 401, code |-> "INVALID_TOKEN"]

\* the role -> permission-set table of the specification
SpecGrants(role) ==
  CASE role \in {"admin", "manager"} -> {"read", "write", "delete", "manage_all"}
    [] role = "agent" -> {"read", "write", "manage_own"}
    [] OTHER -> {}

\* whether a role satisfies a route's gate
Satisfies(role, gate) ==
  CASE gate[1] = "role" -> role = gate[2]
    [] gate[1] = "permission" -> gate[2] \in SpecGrants(role)
    [] OTHER -> TRUE

\* C10: a verified caller whose role does not satisfy the gate of the route
\* called is answered 403 INSUFFICIENT_PERMISSIONS, and no entity store and
\* no audit row changes.
C10GateFailureForbidden ==
  [][ ( /\ ~FailsVerification(last'.hdr)
        /\ ~Satisfies(last'.hdr[2].role, RouteGate[last'.op]) )
      => /\ resp' = [status |-> 403, code |-> "INSUFFICIENT_PERMISSIONS"]
         /\ UNCHANGED <<stores, audit_logs>>
    ]_vars

\* an agent's DELETE of the stored customer was answered 403
C10Witness ==
  /\ last.op = "DeleteCustomer" /\ last.hdr = Bearer(AgentToken)
  /\ Found(customers, last.id)
  /\ resp = [status |-> 403, code |-> "INSUFFICIENT_PERMISSIONS"]

(***************************************************************************)
(* Requests in flight at the same time.  gin serves every request on its   *)
(* own goroutine and the handlers open no transaction, so each h.db call   *)
(* of a handler is a step of its own and the steps of two requests         *)
(* interleave.  procs[p] is the request goroutine p is serving: where it   *)
(* stands (pc), the request, the struct it holds in memory (row) and, once *)
(* done, its response.                                                     *)
(***************************************************************************)
Idle ==
  [pc |-> "idle", op |-> "", hdr |-> <<>>, id |-> 0, req |-> <<>>, ctx |-> <<>>, row |-> <<>>,
   status |-> 0, code |-> ""]

\* goroutine p takes a request and runs it up to its first write (at)
Proceed(p, op, h, id, req, ctx, row, at) ==
  /\ procs' = [procs EXCEPT ![p] = [pc |-> at, op |-> op, hdr |-> h, id |-> id, req |-> req,
                                    ctx |-> ctx, row |-> row, status |-> 0, code |-> ""]]
  /\ UNCHANGED <<stores, audit_logs, now, resp, last, lastOK>>

\* goroutine p writes its response
Respond(p, status, code) ==
  /\ procs' = [procs EXCEPT ![p].pc = "done", ![p].status = status, ![p].code = code]
  /\ Reply(status, code)
  /\ last' = [op |-> procs[p].op, hdr |-> procs[p].hdr, id |-> procs[p].id,
              req |-> procs[p].req, fault |-> "none"]
  /\ lastOK' = IF status < 300 THEN last' ELSE lastOK
  /\ UNCHANGED now

\* goroutine p answers a request it has only just taken
Reject(p, op, h, id, req, status, code) ==
  /\ procs' = [procs EXCEPT ![p] = [pc |-> "done", op |-> op, hdr |-> h, id |-> id, req |-> req,
                                    ctx |-> <<>>, row |-> <<>>, status |-> status, code |-> code]]
  /\ Reply(status, code)
  /\ last' = [op |-> op, hdr |-> h, id |-> id, req |-> req, fault |-> "none"]
  /\ UNCHANGED <<stores, audit_logs, now, lastOK>>

\* CreateContact up to the clearing UPDATE: path id, customer lookup, binding
BeginCreateContact(p, h, customerID, req) ==
  /\ procs[p].pc = "idle"
  /\ LET a == Admit(h, "CreateContact") IN
     IF a.aborted THEN Reject(p, "CreateContact", h, customerID, req, a.status, a.code)
     ELSE IF customerID < 0 THEN Reject(p, "CreateContact", h, customerID, req, 400, "INVALID_ID")
     ELSE IF ~Found(customers, customerID)
          THEN Reject(p, "CreateContact", h, customerID, req, 404, "CUSTOMER_NOT_FOUND")
     ELSE IF req.first_name = "" THEN Reject(p, "CreateContact", h, customerID, req, 400, "INVALID_REQUEST")
     ELSE Proceed(p, "CreateContact", h, customerID, req, a.ctx,
                  [customer_id |-> customerID, first_name |-> req.first_name,
                   is_primary |-> req.is_primary, deleted |-> FALSE],
                  IF req.is_primary THEN "clear" ELSE "create")

\* UpdateContact up to the clearing UPDATE: path id, First(&contact), binding,
\* the request's fields copied into the struct
BeginUpdateContact(p, h, id, req) ==
  /\ procs[p].pc = "idle"
  /\ LET a == Admit(h, "UpdateContact") IN
     IF a.aborted THEN Reject(p, "UpdateContact", h, id, req, a.status, a.code)
     ELSE IF id < 0 THEN Reject(p, "UpdateContact", h, id, req, 400, "INVALID_ID")
     ELSE IF ~Found(contacts, id) THEN Reject(p, "UpdateContact", h, id, req, 404, "CONTACT_NOT_FOUND")
     ELSE LET contact == contacts[id]
              c1 == IF req.first_name # "" THEN [contact EXCEPT !.first_name = req.first_name] ELSE contact
              c2 == IF req.is_primary # NULL THEN [c1 EXCEPT !.is_primary = Deref(req.is_primary)] ELSE c1
          IN Proceed(p, "UpdateContact", h, id, req, a.ctx, c2,
                     IF req.is_primary = Ptr(TRUE) THEN "clear" ELSE "save")

\* the UPDATE that clears the other contacts' flag, on its own
ClearSiblings(p) ==
  /\ procs[p].pc = "clear"
  /\ contacts' = ClearPrimary(contacts, procs[p].row.customer_id,
                              IF procs[p].op = "UpdateContact" THEN procs[p].id ELSE 0)
  /\ procs' = [procs EXCEPT ![p].pc = IF procs[p].op = "UpdateContact" THEN "save" ELSE "create"]
  /\ UNCHANGED <<customers, deals, activities, tags, customer_tags, audit_logs, now, resp, last, lastOK>>

\* h.db.Create(&contact), the audit row and the 201
InsertContact(p) ==
  /\ procs[p].pc = "create"
  /\ Len(contacts) < MaxContacts
  /\ contacts' = Append(contacts, procs[p].row)
  /\ logAudit(procs[p].ctx, "contact", Len(contacts) + 1, "create", "none")
  /\ Respond(p, 201, "")
  /\ UNCHANGED <<customers, deals, activities, tags, customer_tags>>

\* h.db.Save(&contact): every column of the struct in memory is written
SaveContact(p) ==
  /\ procs[p].pc = "save"
  /\ contacts' = [contacts EXCEPT ![procs[p].id] = procs[p].row]
  /\ logAudit(procs[p].ctx, "contact", procs[p].id, "update", "none")
  /\ Respond(p, 200, "")
  /\ UNCHANGED <<customers, deals, activities, tags, customer_tags>>

\* CreateCustomer up to the INSERT: binding, isValidEmail, the email pre-check
BeginCreateCustomer(p, h, req) ==
  /\ procs[p].pc = "idle"
  /\ LET a == Admit(h, "CreateCustomer") IN
     IF a.aborted THEN Reject(p, "CreateCustomer", h, 0, req, a.status, a.code)
     ELSE IF req.name = "" \/ ~BindingEmail(req.email)
          THEN Reject(p, "CreateCustomer", h, 0, req, 400, "INVALID_REQUEST")
     ELSE IF ~isValidEmail(req.email) THEN Reject(p, "CreateCustomer", h, 0, req, 400, "INVALID_EMAIL")
     ELSE IF EmailTaken(customers, req.email, 0)
          THEN Reject(p, "CreateCustomer", h, 0, req, 409, "EMAIL_EXISTS")
     ELSE Proceed(p, "CreateCustomer", h, 0, req, a.ctx,
                  [name |-> req.name, email |-> req.email,
                   status |-> IF req.status = "" THEN CustomerStatusLead ELSE req.status,
                   assigned_to |-> req.assigned_to, contacted |-> FALSE,
                   next_follow_up_at |-> req.next_follow_up_at, deleted |-> FALSE],
                  "insert")

\* h.db.Create(&customer) under the unique index, then the audit row and the 201
InsertCustomer(p) ==
  /\ procs[p].pc = "insert"
  /\ IF EmailUniqueViolation(customers, procs[p].row.email, 0)
     THEN /\ Respond(p, 500, "DATABASE_ERROR")
          /\ UNCHANGED <<stores, audit_logs>>
     ELSE /\ Len(customers) < MaxCustomers
          /\ customers' = Append(customers, procs[p].row)
          /\ logAudit(procs[p].ctx, "customer", Len(customers) + 1, "create", "none")
          /\ Respond(p, 201, "")
          /\ UNCHANGED <<contacts, deals, activities, tags, customer_tags>>

(***************************************************************************)
(* Two contact requests in flight over one customer's two contacts.        *)
(***************************************************************************)
PlainContact(customerID) ==
  [customer_id |-> customerID, first_name |-> "f1", is_primary |-> FALSE, deleted |-> FALSE]

InitContactRace ==
  /\ customers = <<SeedCustomer("n1", EmailA), SeedCustomer("n1", EmailB)>>
  /\ contacts = <<PlainContact(1), PlainContact(1)>>
  /\ deals = <<>>
  /\ activities = <<>>
  /\ tags = <<>>
  /\ customer_tags = {}
  /\ audit_logs = TwoCustomersAudit \o <<AuditRow(AdminCtx, "contact", 1, "create"),
                                          AuditRow(AdminCtx, "contact", 2, "create")>>
  /\ now = 0
  /\ resp = [status |-> 201, code |-> ""]
  /\ last = [op |-> "CreateContact", hdr |-> Bearer(AdminToken), id |-> 1,
             req |-> [first_name |-> "f1", is_primary |-> FALSE], fault |-> "none"]
  /\ lastOK = [op |-> "CreateContact", hdr |-> Bearer(AdminToken), id |-> 1,
               req |-> [first_name |-> "f1", is_primary |-> FALSE], fault |-> "none"]
  /\ procs = [p \in 1..MaxInFlight |-> Idle]

NextContactRace ==
  \E p \in 1..MaxInFlight :
    \/ \E customerID \in 1..2, b \in BOOLEAN :
         BeginCreateContact(p, Bearer(AdminToken), customerID, [first_name |-> "f3", is_primary |-> b])
    \/ \E id \in 0..MaxContacts, b \in {NULL, Ptr(TRUE)} :
         BeginUpdateContact(p, Bearer(AdminToken), id, [first_name |-> "", is_primary |-> b])
    \/ ClearSiblings(p)
    \/ InsertContact(p)
    \/ SaveContact(p)

SpecContactRace == InitContactRace /\ [][NextContactRace]_vars

\* C2: with two contact requests in flight that set is_primary=true on
\* different contacts of one customer, at no point, and so not once both have
\* completed, do two contacts of one customer carry the primary flag.
C2PrimarySwitchAtomic ==
  \A customerID \in 1..Len(customers) :
    \A i, j \in Primaries(customerID) : i = j

(***************************************************************************)
(* Customer creations in flight over an empty database.                    *)
(***************************************************************************)
InitCustomerRace ==
  /\ customers = <<>>
  /\ contacts = <<>>
  /\ deals = <<>>
  /\ activities = <<>>
  /\ tags = <<>>
  /\ customer_tags = {}
  /\ audit_logs = <<>>
  /\ now = 0
  /\ resp = NoResponse
  /\ last = NoRequest
  /\ lastOK = NoRequest
  /\ procs = [p \in 1..MaxInFlight |-> Idle]

NextCustomerRace ==
  \E p \in 1..MaxInFlight :
    \/ \E h \in StaffHeaders, e \in {EmailA, EmailB, EmailShortTld} :
         BeginCreateCustomer(p, h, SeedCustomerRequest("n1", e))
    \/ InsertCustomer(p)

SpecCustomerRace == InitCustomerRace /\ [][NextCustomerRace]_vars

\* C4: of two CreateCustomer requests in flight with one email that both
\* passed the pre-check, at most one is answered 201, and the other is
\* answered 409 EMAIL_EXISTS.
C4LoserGetsEmailExists ==
  \A p, q \in 1..MaxInFlight :
    ( /\ p # q
      /\ procs[p].pc = "done" /\ procs[q].pc = "done"
      /\ procs[p].op = "CreateCustomer" /\ procs[q].op = "CreateCustomer"
      /\ procs[p].row # <<>> /\ procs[q].row # <<>>
      /\ procs[p].req.email = procs[q].req.email
      /\ procs[p].status = 201 )
    => /\ procs[q].status = 409
       /\ procs[q].code = "EMAIL_EXISTS"


(***************************************************************************)
(* Read traffic: every read endpoint, called by the admin and by a caller  *)
(* whose role ("guest") is in no permission table, over a database with    *)
(* two customers, three contacts of customer 1, two deals, two activities  *)
(* and two tags, both assigned to customer 2.  Customer 2 can be deleted.  *)
(***************************************************************************)
CatalogueAudit ==
  <<AuditRow(AdminCtx, "customer", 1, "create"), AuditRow(AdminCtx, "customer", 2, "create"),
    AuditRow(AdminCtx, "contact", 1, "create"), AuditRow(AdminCtx, "contact", 2, "create"),
    AuditRow(AdminCtx, "contact", 3, "create"),
    AuditRow(AdminCtx, "deal", 1, "create"), AuditRow(AdminCtx, "deal", 2, "create"),
    AuditRow(AdminCtx, "activity", 1, "create"), AuditRow(AdminCtx, "activity", 2, "create"),
    AuditRow(AdminCtx, "tag", 1, "create"), AuditRow(AdminCtx, "tag", 2, "create")>>

InitCatalogue ==
  /\ customers = <<SeedCustomer("n1", EmailA), SeedCustomer("n1", EmailB)>>
  /\ contacts = <<[customer_id |-> 1, first_name |-> "f1", is_primary |-> TRUE, deleted |-> FALSE],
                  [customer_id |-> 1, first_name |-> "f2", is_primary |-> FALSE, deleted |-> FALSE],
                  [customer_id |-> 1, first_name |-> "f3", is_primary |-> FALSE, deleted |-> FALSE]>>
  /\ deals = <<[customer_id |-> 1, stage |-> DealStageProspecting, probability |-> 50,
                actual_close_date |-> NULL, lost_reason |-> "", deleted |-> FALSE],
               [customer_id |-> 2, stage |-> DealStageProspecting, probability |-> 50,
                actual_close_date |-> NULL, lost_reason |-> "", deleted |-> FALSE]>>
  /\ activities = <<[customer_id |-> Ptr(1), deal_id |-> NULL, assigned_to |-> Ptr(1),
                     status |-> ActivityStatusScheduled, completed_at |-> NULL, deleted |-> FALSE],
                    [customer_id |-> Ptr(2), deal_id |-> NULL, assigned_to |-> Ptr(3),
                     status |-> ActivityStatusScheduled, completed_at |-> NULL, deleted |-> FALSE]>>
  /\ tags = <<[name |-> "vip", deleted |-> FALSE], [name |-> "gold", deleted |-> FALSE]>>
  /\ customer_tags = {<<1, 1>>, <<2, 1>>, <<2, 2>>}
  /\ audit_logs = CatalogueAudit
  /\ now = 0
  /\ resp = [status |-> 200, code |-> ""]
  /\ last = [op |-> "AssignTagToCustomer", hdr |-> Bearer(AdminToken), id |-> 2,
             req |-> [tag_id |-> 2], fault |-> "none"]
  /\ lastOK = [op |-> "AssignTagToCustomer", hdr |-> Bearer(AdminToken), id |-> 2,
               req |-> [tag_id |-> 2], fault |-> "none"]
  /\ procs = <<>>

ReadProfile ==
  [headers |-> {Bearer(AdminToken), Bearer(GuestToken)}, ids |-> 1..MaxCustomers,
   faults |-> {"none"}, cap |-> Len(CatalogueAudit) + MaxAudit]

IdentityProfile ==
  [headers |-> {Bearer(AdminToken), Bearer(GuestToken), Bearer(SubjectTokenA),
                Bearer(SubjectTokenB), Bearer(BothIdsToken)},
   ids |-> {1}, faults |-> {"none"}, cap |-> Len(CatalogueAudit) + MaxAudit]

ContactListProfile == [ReadProfile EXCEPT !.ids = {1}]

RemovalProfile == [ReadProfile EXCEPT !.ids = {MaxCustomers}]

PageQuery(p, n) == [page |-> p, page_size |-> n, status |-> "", tags |-> <<>>]

PageQueries ==
  { PageQuery(p, n) : p \in {NoParam, Text("x"), Num(0), Num(2), Num(3)},
                      n \in {NoParam, Text("x"), Num(0), Num(1), Num(2), Num(100), Num(101)} }

CustomerQueries ==
  PageQueries \cup
  { [page |-> NoParam, page_size |-> NoParam, status |-> st, tags |-> tg] :
      st \in {"", CustomerStatusLead, CustomerStatusActive}, tg \in {<<>>, <<1>>, <<1, 2>>} }

MyActivityQueries == {PageQuery(NoParam, NoParam), PageQuery(Num(2), Num(1))}

NextRead ==
  \/ RGetMe(IdentityProfile)
  \/ RGetMyActivities(IdentityProfile, MyActivityQueries)
  \/ RListCustomers(ReadProfile, CustomerQueries)
  \/ RGetCustomer(ReadProfile)
  \/ RListContacts(ContactListProfile, PageQueries)
  \/ RListDeals(ReadProfile, PageQueries)
  \/ RGetDeal(ReadProfile)
  \/ RListActivities(ReadProfile, PageQueries)
  \/ RGetActivity(ReadProfile)
  \/ RListTags(ReadProfile)
  \/ RGetOverview(ReadProfile)
  \/ RDeleteCustomer(RemovalProfile)

SpecRead == InitCatalogue /\ [][NextRead]_vars

ReadEndpoints ==
  {"ListCustomers", "GetCustomer", "ListContacts", "ListDeals", "GetDeal",
   "ListActivities", "GetActivity", "ListTags", "GetMyActivities", "GetOverview"}

ListEndpoints ==
  {"ListCustomers", "ListContacts", "ListDeals", "ListActivities", "GetMyActivities"}

\* C11: a verified caller whose role does not hold the read permission is
\* answered 403 by every list, detail, my-activities and report endpoint, and
\* the response carries no stored data.
C11ReadEndpointsEnforceRBAC ==
  [][ ( /\ last'.op \in ReadEndpoints
        /\ ~FailsVerification(last'.hdr)
        /\ "read" \notin SpecGrants(last'.hdr[2].role) )
      => /\ resp'.status = 403
         /\ "data" \notin DOMAIN resp'
    ]_vars

\* C12: the identity's user id is the token's numeric user_id when the token
\* carries one (also when it carries a subject too), and two verified tokens
\* with different subjects and no numeric user_id, served by /admin/me one
\* after the other, are not given the same user id.
C12UserIdFromToken ==
  [][ /\ ( /\ last'.op = "GetMe" /\ resp'.status = 200
           /\ last'.hdr[2].user_id # 0 )
         => resp'.data.user.ID = last'.hdr[2].user_id
      /\ ( /\ last.op = "GetMe" /\ resp.status = 200
           /\ last'.op = "GetMe" /\ resp'.status = 200
           /\ last.hdr[2].user_id = 0 /\ last'.hdr[2].user_id = 0
           /\ last.hdr[2].sub # "" /\ last'.hdr[2].sub # ""
           /\ last.hdr[2].sub # last'.hdr[2].sub )
         => resp.data.user.ID # resp'.data.user.ID
    ]_vars

\* the number of rows the filter of the list request served last selects in
\* the stores as they are: the live rows of the table that pass the filter
\* (with the tags filter of the customer list, one row per customer-tag
\* association that passes it)
SelectedRows ==
  CASE last.op = "ListCustomers" ->
         LET passing == {i \in Live(customers) :
                           last.req.status = "" \/ customers[i].status = last.req.status}
         IN IF last.req.tags = <<>> THEN Cardinality(passing)
            ELSE Cardinality({ct \in customer_tags :
                                /\ ct[1] \in passing
                                /\ \E k \in 1..Len(last.req.tags) : last.req.tags[k] = ct[2]})
    [] last.op = "ListContacts" ->
         Cardinality({i \in Live(contacts) : contacts[i].customer_id = last.id})
    [] last.op = "ListDeals" -> Cardinality(Live(deals))
    [] last.op = "ListActivities" -> Cardinality(Live(activities))
    [] last.op = "GetMyActivities" ->
         Cardinality({i \in Live(activities) :
                        /\ activities[i].assigned_to = Ptr(last.hdr[2].user_id)
                        /\ activities[i].status \in {"scheduled", "overdue"}})

SmallerOf(a, b) == IF a < b THEN a ELSE b
LargerOf(a, b) == IF a > b THEN a ELSE b

\* C16: a list response with effective page p and page size s over total
\* selected rows has total_pages = ceil(total / s) and carries
\* min(s, max(0, total - (p-1)*s)) items; page 3 of size 20 over 45 rows is
\* 5 items of 3 pages.
C16PaginationArithmetic ==
  /\ totalPages(45, 20) = 3
  /\ Len(OffsetLimit([k \in 1..45 |-> k], (3 - 1) * 20, 20)) = 5
  /\ (last.op \in ListEndpoints /\ resp.status = 200)
       => LET d == resp.data
              total == SelectedRows
          IN /\ d.total = total
             /\ d.total_pages * d.page_size >= total
             /\ (d.total_pages - 1) * d.page_size < total
             /\ d.total_pages >= 0
             /\ Len(d.data) = SmallerOf(d.page_size, LargerOf(0, total - (d.page - 1) * d.page_size))

\* page 2 of size 2 over the three contacts of customer 1: one item, two pages
C16Witness ==
  /\ last.op = "ListContacts" /\ resp.status = 200
  /\ resp.data.total = 3 /\ resp.data.page = 2 /\ resp.data.page_size = 2
  /\ Len(resp.data.data) = 1 /\ resp.data.total_pages = 2

\* the page size of the specification: the requested one clamped into [1,100], 20 when absent
ClampedPageSize(param) ==
  IF param = NoParam THEN 20
  ELSE IF param[2] > 100 THEN 100
  ELSE IF param[2] < 1 THEN 1
  ELSE param[2]

\* the page of the specification: the requested one, 1 when absent, unparsable or non-positive
RequestedPage(param) ==
  IF param = NoParam THEN 1
  ELSE IF param[1] # "num" THEN 1
  ELSE IF param[2] < 1 THEN 1
  ELSE param[2]

\* C17: a list response uses the requested page_size clamped into [1,100]
\* (100 for a larger one, 1 for a smaller one, 20 when the parameter is
\* absent) and the requested page, 1 when that is non-positive or unparsable.
C17PageSizeClamped ==
  (last.op \in ListEndpoints /\ resp.status = 200)
    => /\ (last.req.page_size = NoParam \/ last.req.page_size[1] = "num")
            => resp.data.page_size = ClampedPageSize(last.req.page_size)
       /\ resp.data.page = RequestedPage(last.req.page)

\* C20: a successful DeleteCustomer keeps the row in the table with its
\* delete timestamp set; the detail read of a soft-deleted customer by a
\* verified caller still returns it (200 with that row); and no customer list
\* returns a soft-deleted customer or counts it in its total.
C20SoftDeletedStillReadable ==
  [][ /\ Len(customers') >= Len(customers)
      /\ (last'.op = "DeleteCustomer" /\ resp'.status = 200)
           => customers' = [customers EXCEPT ![last'.id].deleted = TRUE]
      /\ ( /\ last'.op = "GetCustomer"
           /\ ~FailsVerification(last'.hdr)
           /\ last'.id \in 1..Len(customers)
           /\ customers[last'.id].deleted )
           => /\ resp'.status = 200
              /\ resp'.data.customer = customers[last'.id]
      /\ (last'.op = "ListCustomers" /\ resp'.status = 200)
           => /\ \A k \in 1..Len(resp'.data.data) : ~customers[resp'.data.data[k]].deleted
              /\ (last'.req.tags = <<>> /\ last'.req.status = "")
                   => resp'.data.total = Cardinality(Live(customers))
    ]_vars


(***************************************************************************)
(* The audit trail of the /admin surface.                                  *)
(***************************************************************************)
\* what the audit record of each mutating route names: resource type, action
MutationAudit ==
  [CreateCustomer |-> <<"customer", "create">>, UpdateCustomer |-> <<"customer", "update">>,
   PatchCustomer |-> <<"customer", "update">>, DeleteCustomer |-> <<"customer", "delete">>,
   CreateContact |-> <<"contact", "create">>, UpdateContact |-> <<"contact", "update">>,
   DeleteContact |-> <<"contact", "delete">>,
   CreateDeal |-> <<"deal", "create">>, UpdateDeal |-> <<"deal", "update">>,
   PatchDeal |-> <<"deal", "update">>, DeleteDeal |-> <<"deal", "delete">>,
   CreateActivity |-> <<"activity", "create">>, UpdateActivity |-> <<"activity", "update">>,
   PatchActivity |-> <<"activity", "update">>, DeleteActivity |-> <<"activity", "delete">>,
   CreateTag |-> <<"tag", "create">>, UpdateTag |-> <<"tag", "update">>,
   DeleteTag |-> <<"tag", "delete">>]

TagLinkRoutes == {"AssignTagToCustomer", "RemoveTagFromCustomer"}

\* the key of the row a request addressed: the path id, or the key of the row a create appended
ResourceOf(op, id, cs, ks, ds, as, ts) ==
  CASE op = "CreateCustomer" -> Len(cs)
    [] op = "CreateContact" -> Len(ks)
    [] op = "CreateDeal" -> Len(ds)
    [] op = "CreateActivity" -> Len(as)
    [] op = "CreateTag" -> Len(ts)
    [] OTHER -> id

\* C13: a request that is answered 2xx and changed a store, with the audit
\* write healthy, appended one audit record, which carries the caller's id,
\* name and role and (for the entity routes) the resource type, the resource
\* id and the action; the tag assignment and removal routes are among them.
C13EveryMutationAudited ==
  [][ ( /\ last'.op \in (DOMAIN MutationAudit) \cup TagLinkRoutes
        /\ resp'.status < 300
        /\ stores' # stores
        /\ last'.fault # "audit" )
      => /\ Len(audit_logs') = Len(audit_logs) + 1
         /\ SubSeq(audit_logs', 1, Len(audit_logs)) = audit_logs
         /\ LET row == audit_logs'[Len(audit_logs')]
                caller == last'.hdr[2]
            IN /\ row.user_id = caller.user_id
               /\ row.user_name = caller.name
               /\ row.user_role = caller.role
               /\ last'.op \in DOMAIN MutationAudit
                    => /\ row.resource_type = MutationAudit[last'.op][1]
                       /\ row.action = MutationAudit[last'.op][2]
                       /\ row.resource_id =
                            ResourceOf(last'.op, last'.id, customers', contacts', deals',
                                       activities', tags')
    ]_vars

(***************************************************************************)
(* The admin's customer and deal writes over the populated database, with  *)
(* an audit insert that can fail.                                          *)
(***************************************************************************)
AuditFaultProfile ==
  [headers |-> {Bearer(AdminToken)}, ids |-> {1}, faults |-> {"none", "audit"},
   cap |-> Len(PopulatedAudit) + MaxGatewayAudit]

NextAuditFault ==
  \/ RCreateCustomer(AuditFaultProfile, GatewayCustomerCreate)
  \/ RUpdateCustomer(AuditFaultProfile, GatewayCustomerUpdate)
  \/ RPatchCustomer(AuditFaultProfile, GatewayCustomerPatch)
  \/ RDeleteCustomer(AuditFaultProfile)
  \/ RCreateDeal(AuditFaultProfile, GatewayDealCreate)
  \/ RUpdateDeal(AuditFaultProfile, GatewayDealUpdate)
  \/ RPatchDeal(AuditFaultProfile, GatewayDealPatch)
  \/ RDeleteDeal(AuditFaultProfile)

SpecAuditFault == Init /\ [][NextAuditFault]_vars

\* C14: a write by a permitted caller whose audit insert fails, and which
\* passes its checks (the row it addresses is stored and not deleted, the
\* payload is valid, a new email is held by no row), is answered with its
\* success status, leaves the mutation in the store and appends no audit row.
C14AuditFailureTolerated ==
  [][ (last'.fault = "audit" /\ last'.hdr = Bearer(AdminToken))
      => /\ audit_logs' = audit_logs
         /\ ( /\ last'.op = "CreateCustomer"
              /\ WellFormedCreate(last'.req)
              /\ ~ \E i \in 1..Len(customers) : customers[i].email = last'.req.email )
              => /\ resp'.status = 201
                 /\ Len(customers') = Len(customers) + 1
                 /\ customers'[Len(customers')].email = last'.req.email
                 /\ customers'[Len(customers')].name = last'.req.name
                 /\ SubSeq(customers', 1, Len(customers)) = customers
         /\ ( /\ last'.op = "UpdateCustomer" /\ Found(customers, last'.id)
              /\ last'.req.name # "" /\ last'.req.email = NoEmail )
              => /\ resp'.status = 200
                 /\ customers'[last'.id].name = last'.req.name
         /\ ( /\ last'.op = "PatchCustomer" /\ Found(customers, last'.id)
              /\ last'.req.status # NULL )
              => /\ resp'.status = 200
                 /\ customers'[last'.id].status = Deref(last'.req.status)
         /\ (last'.op = "DeleteCustomer" /\ Found(customers, last'.id))
              => /\ resp'.status = 200
                 /\ customers' = [customers EXCEPT ![last'.id].deleted = TRUE]
         /\ ( /\ last'.op = "CreateDeal" /\ last'.req.title # ""
              /\ Found(customers, last'.req.customer_id) )
              => /\ resp'.status = 201
                 /\ Len(deals') = Len(deals) + 1
                 /\ deals'[Len(deals')].customer_id = last'.req.customer_id
                 /\ SubSeq(deals', 1, Len(deals)) = deals
         /\ ( /\ last'.op \in {"UpdateDeal", "PatchDeal"} /\ Found(deals, last'.id)
              /\ last'.req.stage \in KnownStages
              /\ deals[last'.id].customer_id \in 1..Len(customers) )
              => /\ resp'.status = 200
                 /\ deals'[last'.id].stage = last'.req.stage
         /\ (last'.op = "DeleteDeal" /\ Found(deals, last'.id))
              => /\ resp'.status = 200
                 /\ deals' = [deals EXCEPT ![last'.id].deleted = TRUE]
    ]_vars

\* the admin's DELETE of customer 1 met a failing audit insert and was
\* answered 200: the customer is deleted and the audit log has no new row
C14Witness ==
  /\ last.op = "DeleteCustomer" /\ last.fault = "audit" /\ last.id = 1
  /\ resp.status = 200
  /\ customers[1].deleted
  /\ ~ \E k \in 1..Len(audit_logs) :
         audit_logs[k].resource_type = "customer" /\ audit_logs[k].action = "delete"

(***************************************************************************)
(* Activity traffic, one request at a time, over the populated database    *)
(* (one customer, one deal, one activity linked to the customer).          *)
(***************************************************************************)
ActivityProfile ==
  [headers |-> {Bearer(AdminToken)}, ids |-> 1..MaxActivities, faults |-> {"none"},
   cap |-> Len(PopulatedAudit) + MaxAudit]

ActivityCreateRequests ==
  { [title |-> t, type |-> "call", customer_id |-> c, deal_id |-> d, assigned_to |-> NULL,
     status |-> st] :
      t \in {"", "call"}, c \in {NULL, Ptr(1)}, d \in {NULL, Ptr(1)},
      st \in {"", ActivityStatusCompleted} }

ActivityUpdateRequests ==
  { [status |-> st, customer_id |-> c, deal_id |-> d, assigned_to |-> NULL, completed_at |-> NULL] :
      st \in {"", ActivityStatusCompleted}, c \in {NULL, Ptr(1)}, d \in {NULL, Ptr(1)} }

ActivityPatchRequests ==
  { [status |-> st] : st \in {"", ActivityStatusCompleted, ActivityStatusScheduled} }

NextActivity ==
  \/ RCreateActivity(ActivityProfile, ActivityCreateRequests)
  \/ RUpdateActivity(ActivityProfile, ActivityUpdateRequests)
  \/ RPatchActivity(ActivityProfile, ActivityPatchRequests)
  \/ RDeleteActivity(ActivityProfile)
  \/ Tick

SpecActivity == Init /\ [][NextActivity]_vars

PatchProfile ==
  [headers |-> {Bearer(AdminToken)}, ids |-> {1}, faults |-> {"none"},
   cap |-> Len(PopulatedAudit) + MaxAudit]

PatchAllowList == {"status", "assigned_to", "contacted", "next_follow_up_at"}

CustomerPatchRequests ==
  { [status |-> st, assigned_to |-> a, contacted |-> c, next_follow_up_at |-> t, name |-> n] :
      st \in {NULL, Ptr(CustomerStatusActive), Ptr(CustomerStatusLead)},
      a \in {NULL, Ptr(7)},
      c \in {NULL, Ptr(TRUE), Ptr(FALSE)},
      t \in {NULL, Ptr(1)},
      n \in {"", "zz"} }

NextPatch ==
  \/ RPatchCustomer(PatchProfile, CustomerPatchRequests)
  \/ RDeleteCustomer(PatchProfile)

SpecPatch == Init /\ [][NextPatch]_vars

\* C18: a PatchCustomer request leaves every store but customers, every other
\* customer, and of the addressed customer the name, the email and the delete
\* timestamp unchanged, and each of status, assigned_to, contacted and
\* next_follow_up_at the payload does not carry; a payload that carries none
\* of the four is answered 400 NO_UPDATES and changes nothing.
C18PatchAllowList ==
  [][ (last'.op = "PatchCustomer" /\ ~FailsVerification(last'.hdr))
      => /\ UNCHANGED <<contacts, deals, activities, tags, customer_tags>>
         /\ Len(customers') = Len(customers)
         /\ \A i \in 1..Len(customers) :
              /\ i # last'.id => customers'[i] = customers[i]
              /\ customers'[i].name = customers[i].name
              /\ customers'[i].email = customers[i].email
              /\ customers'[i].deleted = customers[i].deleted
              /\ \A f \in PatchAllowList :
                   last'.req[f] = NULL => customers'[i][f] = customers[i][f]
         /\ ( /\ Found(customers, last'.id)
              /\ \A f \in PatchAllowList : last'.req[f] = NULL )
              => /\ resp' = [status |-> 400, code |-> "NO_UPDATES"]
                 /\ UNCHANGED <<stores, audit_logs>>
    ]_vars

\* a patch that carried a status and a name was answered 200: the status is
\* the payload's, the name is the stored one
C18Witness ==
  /\ last.op = "PatchCustomer" /\ resp.status = 200
  /\ last.req.name = "zz" /\ last.req.status = Ptr(CustomerStatusActive)
  /\ last.req.contacted = NULL
  /\ customers[1].status = CustomerStatusActive
  /\ customers[1].name = "n1"
  /\ customers[1].contacted = FALSE

AbsentProfile ==
  [headers |-> {Bearer(AdminToken)}, ids |-> {1, 2}, faults |-> {"none"},
   cap |-> Len(PopulatedAudit) + MaxAbsentAudit]

NextAbsent ==
  \/ RUpdateCustomer(AbsentProfile, GatewayCustomerUpdate)
  \/ RPatchCustomer(AbsentProfile, GatewayCustomerPatch)
  \/ RDeleteCustomer(AbsentProfile)
  \/ RUpdateContact(AbsentProfile, GatewayContactUpdate)
  \/ RDeleteContact(AbsentProfile)
  \/ RUpdateDeal(AbsentProfile, GatewayDealUpdate)
  \/ RPatchDeal(AbsentProfile, GatewayDealPatch)
  \/ RDeleteDeal(AbsentProfile)
  \/ RUpdateActivity(AbsentProfile, GatewayActivityUpdate)
  \/ RPatchActivity(AbsentProfile, GatewayActivityPatch)
  \/ RDeleteActivity(AbsentProfile)
  \/ RUpdateTag(AbsentProfile, GatewayTagUpdate)
  \/ RDeleteTag(AbsentProfile)

SpecAbsent == Init /\ [][NextAbsent]_vars

\* the update, patch and delete routes of each entity, and its NotFound code
CustomerWrites == {"UpdateCustomer", "PatchCustomer", "DeleteCustomer"}
ContactWrites == {"UpdateContact", "DeleteContact"}
DealWrites == {"UpdateDeal", "PatchDeal", "DeleteDeal"}
ActivityWrites == {"UpdateActivity", "PatchActivity", "DeleteActivity"}
TagWrites == {"UpdateTag", "DeleteTag"}

AddressedWrites == CustomerWrites \cup ContactWrites \cup DealWrites \cup ActivityWrites \cup TagWrites

DeleteRoutes == {"DeleteCustomer", "DeleteContact", "DeleteDeal", "DeleteActivity", "DeleteTag"}

NotFoundCode(op) ==
  CASE op \in CustomerWrites -> "CUSTOMER_NOT_FOUND"
    [] op \in ContactWrites -> "CONTACT_NOT_FOUND"
    [] op \in DealWrites -> "DEAL_NOT_FOUND"
    [] op \in ActivityWrites -> "ACTIVITY_NOT_FOUND"
    [] op \in TagWrites -> "TAG_NOT_FOUND"

\* the record a route's path id names is absent or soft-deleted
AbsentOrDeleted(op, id) ==
  LET table == CASE op \in CustomerWrites -> customers
                 [] op \in ContactWrites -> contacts
                 [] op \in DealWrites -> deals
                 [] op \in ActivityWrites -> activities
                 [] op \in TagWrites -> tags
  IN id \notin 1..Len(table) \/ table[id].deleted

\* C21: an update, patch or delete request of a permitted caller whose path
\* id names a record that is absent or soft-deleted is answered 404 with the
\* NotFound code of the entity and changes no store and no audit row; a
\* delete that follows a successful delete of the same record is one of them.
C21AbsentRecordNotFound ==
  [][ /\ ( /\ last'.op \in AddressedWrites
           /\ last'.hdr = Bearer(AdminToken)
           /\ last'.id >= 0
           /\ AbsentOrDeleted(last'.op, last'.id) )
         => /\ resp' = [status |-> 404, code |-> NotFoundCode(last'.op)]
            /\ UNCHANGED <<stores, audit_logs>>
      /\ ( /\ last.op \in DeleteRoutes /\ resp.status = 200
           /\ last'.op = last.op /\ last'.id = last.id /\ last'.hdr = last.hdr )
         => /\ resp' = [status |-> 404, code |-> NotFoundCode(last'.op)]
            /\ UNCHANGED <<stores, audit_logs>>
    ]_vars

\* the deal was deleted and its second delete was answered DEAL_NOT_FOUND
C21Witness ==
  /\ last.op = "DeleteDeal" /\ last.id = 1
  /\ lastOK.op = "DeleteDeal" /\ lastOK.id = 1
  /\ deals[1].deleted
  /\ resp = [status |-> 404, code |-> "DEAL_NOT_FOUND"]
  /\ Len(audit_logs) = Len(PopulatedAudit) + 1

(***************************************************************************)
(* Tag traffic, one request at a time, by the admin over two customers:    *)
(* tags are created, assigned, unassigned and deleted, and the tag's       *)
(* DELETE can fail in the database.                                        *)
(***************************************************************************)
TagProfile ==
  [headers |-> {Bearer(AdminToken)}, ids |-> 1..MaxTags, faults |-> {"none", "persist"},
   cap |-> Len(TwoCustomersAudit) + MaxAudit]

TagCreateRequests == {[name |-> "vip"], [name |-> "gold"]}

NextTag ==
  \/ RCreateTag(TagProfile, TagCreateRequests)
  \/ RAssignTagToCustomer(TagProfile)
  \/ RRemoveTagFromCustomer(TagProfile)
  \/ RDeleteTag(TagProfile)

SpecTag == InitTwoCustomers /\ [][NextTag]_vars

OrphanProfile ==
  [headers |-> {Bearer(AdminToken)}, ids |-> {1, 2}, faults |-> {"none"},
   cap |-> Len(PopulatedAudit) + MaxAbsentAudit]

OrphanContactUpdate == {[first_name |-> f, is_primary |-> NULL] : f \in {"", "f2"}}

FirstPage == {PageQuery(NoParam, NoParam)}

NextOrphan ==
  \/ RDeleteCustomer(OrphanProfile)
  \/ RCreateContact(OrphanProfile, GatewayContactCreate)
  \/ RUpdateContact(OrphanProfile, OrphanContactUpdate)
  \/ RGetCustomer(OrphanProfile)
  \/ RListContacts(OrphanProfile, FirstPage)
  \/ RListDeals(OrphanProfile, FirstPage)
  \/ RGetDeal(OrphanProfile)
  \/ RListActivities(OrphanProfile, FirstPage)
  \/ RGetActivity(OrphanProfile)

SpecOrphan == Init /\ [][NextOrphan]_vars

\* C23: a CreateContact whose path names a customer that is absent or
\* soft-deleted, and an UpdateContact of a stored contact whose customer is
\* absent or soft-deleted, is answered 404 CUSTOMER_NOT_FOUND and leaves the
\* contacts as they were.
C23ContactNeedsLiveCustomer ==
  [][ /\ ( /\ last'.op = "CreateContact" /\ last'.hdr = Bearer(AdminToken)
           /\ last'.id >= 0
           /\ ~Found(customers, last'.id) )
         => /\ resp' = [status |-> 404, code |-> "CUSTOMER_NOT_FOUND"]
            /\ contacts' = contacts
      /\ ( /\ last'.op = "UpdateContact" /\ last'.hdr = Bearer(AdminToken)
           /\ Found(contacts, last'.id)
           /\ ~Found(customers, contacts[last'.id].customer_id) )
         => /\ resp' = [status |-> 404, code |-> "CUSTOMER_NOT_FOUND"]
            /\ contacts' = contacts
    ]_vars

\* the keys a list response carries
Listed(data) == {data[k] : k \in 1..Len(data)}

\* C30: a DeleteCustomer answered 200 sets the delete timestamp of the
\* addressed customer, appends one audit row and changes nothing else; and
\* the contacts, deals and activities of a customer, deleted or not, are
\* returned by their list and detail endpoints: the contact list of the
\* customer, the deal and activity lists, the deal and activity by id.
C30DeleteCustomerNoCascade ==
  [][ /\ (last'.op = "DeleteCustomer" /\ resp'.status = 200)
         => /\ customers' = [customers EXCEPT ![last'.id].deleted = TRUE]
            /\ audit_logs' = Append(audit_logs, AuditRow(AdminCtx, "customer", last'.id, "delete"))
            /\ UNCHANGED <<contacts, deals, activities, tags, customer_tags>>
      /\ (last'.op = "ListContacts" /\ last'.id \in 1..Len(customers))
         => /\ resp'.status = 200
            /\ \A i \in Live(contacts) :
                 contacts[i].customer_id = last'.id => i \in Listed(resp'.data.data)
      /\ (last'.op = "ListDeals")
         => /\ resp'.status = 200
            /\ Live(deals) \subseteq Listed(resp'.data.data)
      /\ (last'.op = "GetDeal" /\ Found(deals, last'.id))
         => /\ resp'.status = 200
            /\ resp'.data.deal = deals[last'.id]
      /\ (last'.op = "ListActivities")
         => /\ resp'.status = 200
            /\ Live(activities) \subseteq Listed(resp'.data.data)
      /\ (last'.op = "GetActivity" /\ Found(activities, last'.id))
         => /\ resp'.status = 200
            /\ resp'.data.activity = activities[last'.id]
    ]_vars

(***************************************************************************)
(* Stage and lost-reason traffic on the stored deal, one request at a      *)
(* time, by the admin, with the clock running.                             *)
(***************************************************************************)
LostReasonProfile ==
  [headers |-> {Bearer(AdminToken)}, ids |-> {1}, faults |-> {"none"},
   cap |-> Len(PopulatedAudit) + MaxAudit]

LostReasonUpdateRequests ==
  { [customer_id |-> NULL, stage |-> st, probability |-> NULL, actual_close_date |-> NULL,
     lost_reason |-> r] :
      st \in {"", DealStageProposal, DealStageClosedLost}, r \in {"", "price"} }

LostReasonPatchRequests ==
  { [stage |-> st, lost_reason |-> r] :
      st \in {DealStageProposal, DealStageClosedWon, DealStageClosedLost}, r \in {"", "budget"} }

NextLostReason ==
  \/ RUpdateDeal(LostReasonProfile, LostReasonUpdateRequests)
  \/ RPatchDeal(LostReasonProfile, LostReasonPatchRequests)
  \/ Tick

SpecLostReason == Init /\ [][NextLostReason]_vars

\* C24: an UpdateDeal or PatchDeal request that carries no lost_reason leaves
\* the lost_reason of every deal as it was, whatever stage it moves the deal
\* to; a PatchDeal into closed_lost that carries a lost_reason and is
\* answered 200 stores that reason on the deal; and a request changes the
\* lost_reason of no deal but the one it addresses.
C24LostReasonRetained ==
  [][ (last'.op \in {"UpdateDeal", "PatchDeal"})
      => /\ Len(deals') = Len(deals)
         /\ \A i \in 1..Len(deals) :
              (i # last'.id \/ last'.req.lost_reason = "")
              => deals'[i].lost_reason = deals[i].lost_reason
         /\ ( /\ last'.op = "PatchDeal" /\ resp'.status = 200
              /\ last'.req.stage = DealStageClosedLost
              /\ last'.req.lost_reason # "" )
            => /\ deals'[last'.id].stage = DealStageClosedLost
               /\ deals'[last'.id].lost_reason = last'.req.lost_reason
    ]_vars

\* the deal, lost for "budget", was moved on to proposal by a PATCH without
\* a lost_reason: the reason is still stored
C24Witness ==
  /\ last.op = "PatchDeal" /\ resp.status = 200
  /\ last.req = [stage |-> DealStageProposal, lost_reason |-> ""]
  /\ deals[1].stage = DealStageProposal
  /\ deals[1].lost_reason = "budget"
  /\ deals[1].actual_close_date # NULL

\* C25: in every reachable state an activity whose status is completed has
\* a completed_at that is set.
C25CompletedHasTimestamp ==
  \A i \in 1..Len(activities) :
    activities[i].status = ActivityStatusCompleted => activities[i].completed_at # NULL

\* C29: in every reachable state every stored activity has a customer_id or
\* a deal_id, and no request takes a link away: an activity that has a
\* customer_id keeps one, an activity that has a deal_id keeps one.
C29ActivityAlwaysLinked ==
  /\ [](\A i \in 1..Len(activities) :
          activities[i].customer_id # NULL \/ activities[i].deal_id # NULL)
  /\ [][ \A i \in 1..Len(activities) :
           /\ i \in 1..Len(activities')
           /\ activities[i].customer_id # NULL => activities'[i].customer_id # NULL
           /\ activities[i].deal_id # NULL => activities'[i].deal_id # NULL
       ]_vars

\* an activity created with a deal only was given a customer by a PUT that
\* carried no deal_id: it has both links
C29Witness ==
  /\ last.op = "UpdateActivity" /\ resp.status = 200 /\ last.id = 2
  /\ last.req.customer_id = Ptr(1) /\ last.req.deal_id = NULL
  /\ Len(activities) = 2
  /\ activities[2].customer_id = Ptr(1)
  /\ activities[2].deal_id = Ptr(1)
  /\ \E k \in 1..Len(audit_logs) :
       /\ audit_logs[k].resource_type = "activity" /\ audit_logs[k].resource_id = 2
       /\ audit_logs[k].action = "create"
       /\ k = Len(audit_logs) - 1

\* C26: a CreateContact or UpdateContact request with is_primary = true
\* that is answered with an error leaves the is_primary flag of every stored
\* contact as it was before the request.
C26FailedPrimaryWriteRestores ==
  [][ ( /\ \/ last'.op = "CreateContact" /\ last'.req.is_primary = TRUE
           \/ last'.op = "UpdateContact" /\ last'.req.is_primary = Ptr(TRUE)
        /\ resp'.status >= 400 )
      => /\ Len(contacts') = Len(contacts)
         /\ \A i \in 1..Len(contacts) : contacts'[i].is_primary = contacts[i].is_primary
    ]_vars

(***************************************************************************)
(* Two PUT requests in flight on the stored customer.  UpdateCustomer      *)
(* reads the row into a struct, copies the payload's fields into it and    *)
(* writes the struct back with h.db.Save, every column of it.              *)
(***************************************************************************)
\* UpdateCustomer up to the UPDATE: path id, First(&customer), binding, the
\* email checks, the request's fields copied into the struct
BeginUpdateCustomer(p, h, id, req) ==
  /\ procs[p].pc = "idle"
  /\ LET a == Admit(h, "UpdateCustomer") IN
     IF a.aborted THEN Reject(p, "UpdateCustomer", h, id, req, a.status, a.code)
     ELSE IF id < 0 THEN Reject(p, "UpdateCustomer", h, id, req, 400, "INVALID_ID")
     ELSE IF ~Found(customers, id)
          THEN Reject(p, "UpdateCustomer", h, id, req, 404, "CUSTOMER_NOT_FOUND")
     ELSE IF req.email # NoEmail /\ ~BindingEmail(req.email)
          THEN Reject(p, "UpdateCustomer", h, id, req, 400, "INVALID_REQUEST")
     ELSE LET customer == customers[id]
              changing == req.email # NoEmail /\ req.email # customer.email
          IN IF changing /\ ~isValidEmail(req.email)
             THEN Reject(p, "UpdateCustomer", h, id, req, 400, "INVALID_EMAIL")
             ELSE IF changing /\ EmailTaken(customers, req.email, id)
             THEN Reject(p, "UpdateCustomer", h, id, req, 409, "EMAIL_EXISTS")
             ELSE LET c1 == IF changing THEN [customer EXCEPT !.email = req.email] ELSE customer
                      c2 == IF req.name # "" THEN [c1 EXCEPT !.name = req.name] ELSE c1
                      c3 == IF req.status # "" THEN [c2 EXCEPT !.status = req.status] ELSE c2
                      c4 == IF req.assigned_to # NULL
                            THEN [c3 EXCEPT !.assigned_to = req.assigned_to] ELSE c3
                      c5 == IF req.contacted # NULL
                            THEN [c4 EXCEPT !.contacted = Deref(req.contacted)] ELSE c4
                      c6 == IF req.next_follow_up_at # NULL
                            THEN [c5 EXCEPT !.next_follow_up_at = req.next_follow_up_at] ELSE c5
                  IN Proceed(p, "UpdateCustomer", h, id, req, a.ctx, c6, "save")

\* h.db.Save(&customer) under the unique index, then the audit row and the 200
SaveCustomer(p) ==
  /\ procs[p].pc = "save"
  /\ procs[p].op = "UpdateCustomer"
  /\ IF EmailUniqueViolation(customers, procs[p].row.email, procs[p].id)
     THEN /\ Respond(p, 500, "DATABASE_ERROR")
          /\ UNCHANGED <<stores, audit_logs>>
     ELSE /\ customers' = [customers EXCEPT ![procs[p].id] = procs[p].row]
          /\ logAudit(procs[p].ctx, "customer", procs[p].id, "update", "none")
          /\ Respond(p, 200, "")
          /\ UNCHANGED <<contacts, deals, activities, tags, customer_tags>>

InitUpdateRace ==
  /\ customers = <<SeedCustomer("n1", EmailA)>>
  /\ contacts = <<>>
  /\ deals = <<>>
  /\ activities = <<>>
  /\ tags = <<>>
  /\ customer_tags = {}
  /\ audit_logs = <<AuditRow(AdminCtx, "customer", 1, "create")>>
  /\ now = 0
  /\ resp = [status |-> 201, code |-> ""]
  /\ last = [op |-> "CreateCustomer", hdr |-> Bearer(AdminToken), id |-> 0,
             req |-> SeedCustomerRequest("n1", EmailA), fault |-> "none"]
  /\ lastOK = [op |-> "CreateCustomer", hdr |-> Bearer(AdminToken), id |-> 0,
               req |-> SeedCustomerRequest("n1", EmailA), fault |-> "none"]
  /\ procs = [p \in 1..MaxInFlight |-> Idle]

\* PUT payloads that carry a name, a status, both or neither
RaceUpdateRequests ==
  { [name |-> n, email |-> NoEmail, status |-> st, assigned_to |-> NULL, contacted |-> NULL,
     next_follow_up_at |-> NULL] :
      n \in {"", "n2"}, st \in {"", CustomerStatusActive} }

NextUpdateRace ==
  \E p \in 1..MaxInFlight :
    \/ \E h \in StaffHeaders, id \in 1..MaxCustomers, req \in RaceUpdateRequests :
         BeginUpdateCustomer(p, h, id, req)
    \/ SaveCustomer(p)

SpecUpdateRace == InitUpdateRace /\ [][NextUpdateRace]_vars

\* the fields a PUT payload supplies
Supplied(req) == {f \in {"name", "status"} : req[f] # ""}

\* C27: once two UpdateCustomer requests on one customer that each supply
\* a field, and no field in common, have both been answered 200, every field
\* either of them supplied holds the value it supplied.
C27DisjointUpdatesBothKept ==
  \A p, q \in 1..MaxInFlight :
    ( /\ p # q
      /\ procs[p].pc = "done" /\ procs[q].pc = "done"
      /\ procs[p].op = "UpdateCustomer" /\ procs[q].op = "UpdateCustomer"
      /\ procs[p].status = 200 /\ procs[q].status = 200
      /\ procs[p].id = procs[q].id
      /\ Supplied(procs[p].req) # {} /\ Supplied(procs[q].req) # {}
      /\ Supplied(procs[p].req) \cap Supplied(procs[q].req) = {} )
    => \A f \in Supplied(procs[p].req) : customers[procs[p].id][f] = procs[p].req[f]

(***************************************************************************)
(* The order of the checks: every update, patch and delete route, called   *)
(* with good and bad credentials, with a path id that does not parse (-1), *)
(* a stored id (1) and an absent id (2), and with payloads that pass and   *)
(* payloads that fail validation.                                          *)
(***************************************************************************)
ExpiredGuestToken == [GuestToken EXCEPT !.expired = TRUE]

OrderProfile ==
  [headers |-> {<<>>, Bearer(ExpiredGuestToken), Bearer(ForgedToken), Bearer(GuestToken),
                Bearer(AgentToken), Bearer(AdminToken)},
   ids |-> {-1, 1, 2}, faults |-> {"none"},
   cap |-> Len(PopulatedAudit) + MaxGatewayAudit]

OrderCustomerUpdate ==
  GatewayCustomerUpdate \cup
  {[name |-> "n2", email |-> EmailShortTld, status |-> "", assigned_to |-> NULL,
    contacted |-> NULL, next_follow_up_at |-> NULL]}

OrderCustomerPatch ==
  GatewayCustomerPatch \cup
  {[status |-> NULL, assigned_to |-> NULL, contacted |-> NULL, next_follow_up_at |-> NULL]}

OrderDealUpdate ==
  GatewayDealUpdate \cup
  {[customer_id |-> NULL, stage |-> "bogus", probability |-> NULL,
    actual_close_date |-> NULL, lost_reason |-> ""]}

OrderDealPatch ==
  GatewayDealPatch \cup {[stage |-> "", lost_reason |-> ""], [stage |-> "bogus", lost_reason |-> ""]}

OrderActivityPatch == GatewayActivityPatch \cup {[status |-> ""]}

NextOrder ==
  \/ RUpdateCustomer(OrderProfile, OrderCustomerUpdate)
  \/ RPatchCustomer(OrderProfile, OrderCustomerPatch)
  \/ RDeleteCustomer(OrderProfile)
  \/ RUpdateContact(OrderProfile, GatewayContactUpdate)
  \/ RDeleteContact(OrderProfile)
  \/ RUpdateDeal(OrderProfile, OrderDealUpdate)
  \/ RPatchDeal(OrderProfile, OrderDealPatch)
  \/ RDeleteDeal(OrderProfile)
  \/ RUpdateActivity(OrderProfile, GatewayActivityUpdate)
  \/ RPatchActivity(OrderProfile, OrderActivityPatch)
  \/ RDeleteActivity(OrderProfile)
  \/ RUpdateTag(OrderProfile, GatewayTagUpdate)
  \/ RDeleteTag(OrderProfile)

SpecOrder == Init /\ [][NextOrder]_vars

\* a payload that fails the validation of its route: an email that is not
\* an address, a patch without any field, a stage outside the six, a status
\* patch without a status
InvalidPayload(op, req) ==
  CASE op = "UpdateCustomer" ->
         req.email # <<>> /\ ~(Len(req.email) = 3 /\ Len(req.email[3]) >= 2)
    [] op = "PatchCustomer" -> \A f \in PatchAllowList : req[f] = NULL
    [] op = "UpdateDeal" -> req.stage \notin KnownStages \cup {""}
    [] op = "PatchDeal" -> req.stage \notin KnownStages
    [] op = "PatchActivity" -> req.status = ""
    [] OTHER -> FALSE

ValidationCodes == {"INVALID_REQUEST", "INVALID_EMAIL", "INVALID_STAGE", "NO_UPDATES"}

\* C28: an update, patch or delete request is answered by the first check
\* it fails, in this order: identity verification (401), the gate of the
\* route (403 INSUFFICIENT_PERMISSIONS), the path id (400 INVALID_ID), the
\* record (404 and the entity's NotFound code), the payload (400 and a
\* validation code); a request that fails a check changes no store and no
\* audit row, and one that fails none is answered 200.
C28ChecksInOrder ==
  [][ (last'.op \in AddressedWrites)
      => IF FailsVerification(last'.hdr)
         THEN resp'.status = 401 /\ UNCHANGED <<stores, audit_logs>>
         ELSE IF ~Satisfies(last'.hdr[2].role, RouteGate[last'.op])
         THEN /\ resp' = [status |-> 403, code |-> "INSUFFICIENT_PERMISSIONS"]
              /\ UNCHANGED <<stores, audit_logs>>
         ELSE IF last'.id < 0
         THEN /\ resp' = [status |-> 400, code |-> "INVALID_ID"]
              /\ UNCHANGED <<stores, audit_logs>>
         ELSE IF AbsentOrDeleted(last'.op, last'.id)
         THEN /\ resp' = [status |-> 404, code |-> NotFoundCode(last'.op)]
              /\ UNCHANGED <<stores, audit_logs>>
         ELSE IF InvalidPayload(last'.op, last'.req)
         THEN /\ resp'.status = 400 /\ resp'.code \in ValidationCodes
              /\ UNCHANGED <<stores, audit_logs>>
         ELSE resp'.status = 200
    ]_vars

\* the admin's PUT of a deal with a stage outside the six, aimed at an id
\* no deal has, was answered DEAL_NOT_FOUND
C28Witness ==
  /\ last.op = "UpdateDeal" /\ last.hdr = Bearer(AdminToken)
  /\ last.id = 2 /\ last.req.stage = "bogus"
  /\ Len(deals) = 1
  /\ resp = [status |-> 404, code |-> "DEAL_NOT_FOUND"]

====
